---- MODULE Spec2Model ----
(***************************************************************************)
(* A model of scripts/crawler.py: the boundary-constrained documentation   *)
(* crawler (crawl_docs and its helpers).                                   *)
(*                                                                         *)
(* Strings are sequences of one-character strings over a small alphabet,   *)
(* so that str.startswith, str.lower, str.rstrip and the urllib.parse      *)
(* functions are computed character by character, as the code computes     *)
(* them.  "s" stands for the scheme name (https), "S" for the same scheme  *)
(* written in upper case; "x", "X", "y", "Y" and "o.y" are host names; the *)
(* other letters are path segments, a query ("q") and a fragment ("g").    *)
(***************************************************************************)
EXTENDS Integers, Sequences, FiniteSets, TLC

\* ------------------------------------------------------------------------
\* Bounds of the model
\* ------------------------------------------------------------------------

\* Largest page budget (max_pages) a run is started with.
MaxBudget == 6

\* Largest page budget of the runs that are there for their first passes: the
\* run on the site "fan", which its budget cuts short, the run on the site
\* "broken" and the run with a base path without trailing slash.
MaxFanBudget == 2

\* Largest number of failing fetch attempts (HTTP error or transport error)
\* the network produces in one run.
MaxFail == 3

\* Largest number of handler calls (start tag, end tag, text) made on one
\* DocParser.
MaxEvents == 4

\* ------------------------------------------------------------------------
\* String helpers (Python str methods used by the crawler)
\* ------------------------------------------------------------------------

\* The one element of a singleton set.  A value computed once and used several
\* times is written the({ body(x) : x \in {value} }).
the(S) == CHOOSE r \in S : TRUE

\* str.lower on one character.
lower_char(c) ==
    CASE c = "S" -> "s"
      [] c = "X" -> "x"
      [] c = "Y" -> "y"
      [] OTHER -> c

\* str.lower
str_lower(s) == [i \in 1..Len(s) |-> lower_char(s[i])]

\* str.startswith
startswith(s, prefix) ==
    /\ Len(prefix) <= Len(s)
    /\ SubSeq(s, 1, Len(prefix)) = prefix

\* Variant of rstrip_slash: one trailing "/" is removed.
rstrip_slash_once(s) ==
    IF s # <<>> /\ s[Len(s)] = "/" THEN SubSeq(s, 1, Len(s) - 1) ELSE s

\* str.rstrip("/"): every trailing "/" is removed.
rstrip_slash(s) ==
    SubSeq(s, 1, Cardinality({i \in 1..Len(s) : \E j \in i..Len(s) : s[j] # "/"}))

\* str.find(c): the first index of character c in s, 0 when absent.
find(s, c) ==
    IF \E i \in 1..Len(s) : s[i] = c
    THEN CHOOSE i \in 1..Len(s) : s[i] = c /\ \A j \in 1..(i - 1) : s[j] # c
    ELSE 0

\* The first index of any character of cs in s, Len(s) + 1 when none occurs.
find_any(s, cs) ==
    IF \E i \in 1..Len(s) : s[i] \in cs
    THEN CHOOSE i \in 1..Len(s) : s[i] \in cs /\ \A j \in 1..(i - 1) : s[j] \notin cs
    ELSE Len(s) + 1

\* The characters of the model's strings, in code-point order.
Alphabet ==
    <<" ", "#", ".", "/", ":", "?", "S", "X", "Y", "[", "_",
      "b", "c", "d", "e", "f", "g", "h", "o", "q", "s", "x", "y">>

\* ord(c), up to the gaps between the code points.
ord(c) == CHOOSE i \in 1..Len(Alphabet) : Alphabet[i] = c

\* The first index at which a and b differ, for strings neither of which is a
\* prefix of the other.
first_diff(a, b) ==
    CHOOSE i \in 1..Len(a) : /\ i <= Len(b)
                             /\ a[i] # b[i]
                             /\ \A j \in 1..(i - 1) : a[j] = b[j]

\* a < b on str: code point by code point, a proper prefix first.
str_lt(a, b) ==
    IF startswith(b, a) THEN Len(a) < Len(b)
    ELSE IF startswith(a, b) THEN FALSE
    ELSE \E i \in {first_diff(a, b)} : ord(a[i]) < ord(b[i])

\* (a1, a2) < (b1, b2) on tuples of two str.
pair_lt(a, b) == IF a[1] = b[1] THEN str_lt(a[2], b[2]) ELSE str_lt(a[1], b[1])

\* A stable sort of sq, smaller holding the <<j, i>> with sq[j] < sq[i]: the
\* element of index i goes to the index that counts the elements smaller than
\* it and the equal ones before it.
sorted_by(sq, smaller) ==
    [k \in 1..Len(sq) |->
        sq[CHOOSE i \in 1..Len(sq) :
               Cardinality({j \in 1..Len(sq) : <<j, i>> \in smaller})
                 + Cardinality({j \in 1..(i - 1) : sq[j] = sq[i]}) = k - 1]]

\* sorted(sq) for a list of str
sorted(sq) ==
    the({ sorted_by(l, {p \in (1..Len(l)) \X (1..Len(l)) : str_lt(l[p[1]], l[p[2]])}) :
          l \in {sq} })

\* sorted(sq) for a list of tuples of two str
sorted_pairs(sq) ==
    the({ sorted_by(l, {p \in (1..Len(l)) \X (1..Len(l)) : pair_lt(l[p[1]], l[p[2]])}) :
          l \in {sq} })

\* str.strip(c): the leading and the trailing occurrences of c are removed.
strip_char(s, c) ==
    IF \A i \in 1..Len(s) : s[i] = c THEN <<>>
    ELSE SubSeq(s, CHOOSE i \in 1..Len(s) : s[i] # c /\ \A j \in 1..(i - 1) : s[j] = c,
                   CHOOSE i \in 1..Len(s) : s[i] # c /\ \A j \in (i + 1)..Len(s) : s[j] = c)

\* str.strip()
strip(s) == strip_char(s, " ")

\* str.replace(old, "", 1): the first occurrence of old is removed.
remove_first(s, old) ==
    the({ IF at = {} THEN s
          ELSE the({ SubSeq(s, 1, i - 1) \o SubSeq(s, i + Len(old), Len(s)) :
                         i \in {CHOOSE i \in at : \A j \in at : i <= j} }) :
          at \in { {i \in 1..(Len(s) - Len(old) + 1) :
                        SubSeq(s, i, i + Len(old) - 1) = old} } })

\* str.replace("/", "_")
replace_slash(s) == [i \in 1..Len(s) |-> IF s[i] = "/" THEN "_" ELSE s[i]]

\* ------------------------------------------------------------------------
\* urllib.parse, as the crawler uses it
\* ------------------------------------------------------------------------

\* urllib.parse.urlparse, in its steps: the scheme (lower-cased) up to the first
\* ":", the netloc after "//" up to the first "/", "?" or "#", the fragment after
\* the first "#", the query after the first "?", and the path, which is the rest.
\* (No URL of the model has ";params".)
split_scheme_at(u, colon) ==
    IF colon > 1 /\ \A j \in 1..(colon - 1) : u[j] \notin {"/", "?", "#"}
    THEN [scheme |-> str_lower(SubSeq(u, 1, colon - 1)),
          rest |-> SubSeq(u, colon + 1, Len(u))]
    ELSE [scheme |-> <<>>, rest |-> u]

split_netloc_at(p, rest, netEnd) ==
    [scheme |-> p.scheme,
     netloc |-> SubSeq(rest, 1, netEnd - 1),
     rest |-> SubSeq(rest, netEnd, Len(rest))]

split_netloc(p) ==
    IF startswith(p.rest, <<"/", "/">>)
    THEN the({ split_netloc_at(p, rest, find_any(rest, {"/", "?", "#"})) :
                   rest \in {SubSeq(p.rest, 3, Len(p.rest))} })
    ELSE [scheme |-> p.scheme, netloc |-> <<>>, rest |-> p.rest]

split_fragment_at(p, hash) ==
    [scheme |-> p.scheme,
     netloc |-> p.netloc,
     rest |-> IF hash > 0 THEN SubSeq(p.rest, 1, hash - 1) ELSE p.rest,
     fragment |-> IF hash > 0 THEN SubSeq(p.rest, hash + 1, Len(p.rest)) ELSE <<>>]

split_query_at(p, qm) ==
    [scheme |-> p.scheme,
     netloc |-> p.netloc,
     path |-> IF qm > 0 THEN SubSeq(p.rest, 1, qm - 1) ELSE p.rest,
     query |-> IF qm > 0 THEN SubSeq(p.rest, qm + 1, Len(p.rest)) ELSE <<>>,
     fragment |-> p.fragment]

split_scheme(u) == the({ split_scheme_at(u, colon) : colon \in {find(u, ":")} })

split_fragment(p) == the({ split_fragment_at(p, hash) : hash \in {find(p.rest, "#")} })

split_query(p) == the({ split_query_at(p, qm) : qm \in {find(p.rest, "?")} })

urlparse(u) ==
    the({ split_query(p3) : p3 \in
        { split_fragment(p2) : p2 \in
            { split_netloc(p1) : p1 \in {split_scheme(u)} } } })

\* urllib.parse.urlunparse of (scheme, netloc, path, "", query, fragment) for a
\* scheme that uses a netloc (http, https).
urlunparse(scheme, netloc, path, query, fragment) ==
    (IF scheme # <<>> THEN scheme \o <<":">> ELSE <<>>)
        \o <<"/", "/">> \o netloc
        \o (IF path # <<>> /\ path[1] # "/" THEN <<"/">> ELSE <<>>) \o path
        \o (IF query # <<>> THEN <<"?">> \o query ELSE <<>>)
        \o (IF fragment # <<>> THEN <<"#">> \o fragment ELSE <<>>)

\* urlunparse of a parsed URL with its fragment kept or dropped.
unparse(p, keep_fragment) ==
    urlunparse(p.scheme, p.netloc, p.path, p.query,
               IF keep_fragment THEN p.fragment ELSE <<>>)

\* urllib.parse.urljoin(base_url, href) for an href that carries its own scheme
\* and netloc, of the base URL's scheme: the href is parsed and put together
\* again (the scheme comes out lower-cased, an empty query or fragment is dropped).
urljoin(base_url, href) == the({ unparse(p, TRUE) : p \in {urlparse(href)} })

\* urllib.parse.urldefrag(url)[0]
urldefrag(u) ==
    IF \E i \in 1..Len(u) : u[i] = "#"
    THEN the({ unparse(p, FALSE) : p \in {urlparse(u)} })
    ELSE u

\* path.rstrip("/") or "/"
strip_path(path) == IF path = <<>> THEN <<"/">> ELSE path

\* normalize_url: lower-case scheme and host, strip trailing slashes from the
\* path (an empty path becomes "/"), keep the query, drop the fragment.
normalize_parsed(parsed) ==
    the({ urlunparse(scheme, netloc, strip_path(stripped), parsed.query, <<>>) :
              scheme \in {str_lower(parsed.scheme)},
              netloc \in {str_lower(parsed.netloc)},
              stripped \in {rstrip_slash(parsed.path)} })

normalize_url(u) == the({ normalize_parsed(parsed) : parsed \in {urlparse(u)} })

\* make_filename: the path of the URL without the first occurrence of
\* base_path and without leading and trailing slashes, its "/" turned into
\* "_", with the suffix .txt; index.txt when nothing is left.
filename_of(relative) ==
    IF relative = <<>> THEN <<"index", ".txt">>
    ELSE replace_slash(relative) \o <<".txt">>

make_filename(u, path) ==
    the({ filename_of(relative) :
              relative \in {strip_char(remove_first(urlparse(u).path, path), "/")} })

\* Whether urlsplit raises ValueError("Invalid IPv6 URL") on the URL: its netloc
\* has one of "[" and "]" without the other.  (No URL of the model has "]".)
invalid_netloc(href) == \E i \in 1..Len(urlparse(href).netloc) : urlparse(href).netloc[i] = "["

\* DocParser.links after feed(): one link per anchor href, in document order.
\* A page's markup is modelled by the sequence of its anchors' href values.
parser_links(base_url, hrefs) ==
    [i \in 1..Len(hrefs) |->
        the({ urldefrag(full) : full \in {urljoin(base_url, hrefs[i])} })]

\* ------------------------------------------------------------------------
\* URLs and sites the runs are started on
\* ------------------------------------------------------------------------

Root   == <<"s", ":", "/", "/", "x">>                \* s://x
RootUp == <<"s", ":", "/", "/", "X">>                \* s://X
PathD  == <<"/", "d", "/">>                          \* /d/
UA  == Root \o PathD                                 \* s://x/d/
UB  == UA \o <<"b">>                                 \* s://x/d/b
UC  == UA \o <<"c">>                                 \* s://x/d/c
UE  == UA \o <<"e">>                                 \* s://x/d/e
UF  == UA \o <<"f">>                                 \* s://x/d/f
UH  == UA \o <<"h">>                                 \* s://x/d/h
UBs == UB \o <<"/">>                                 \* s://x/d/b/
UBg == UB \o <<"#", "g">>                            \* s://x/d/b#g
UBq == UB \o <<"?", "q">>                            \* s://x/d/b?q
UAn == Root \o <<"/", "d">>                          \* s://x/d
UO  == Root \o <<"/", "o">>                          \* s://x/o  (same host, other path)
UY  == <<"s", ":", "/", "/", "y", "/">>              \* s://y/   (another host)
UXA == RootUp \o PathD                               \* s://X/d/
UXB == UXA \o <<"b">>                                \* s://X/d/b
USA == <<"S">> \o Tail(UA)                           \* S://x/d/
UOY == <<"s", ":", "/", "/", "o", ".", "y", "/">>    \* s://o.y/ (a subdomain of y)
UYU == <<"s", ":", "/", "/", "Y", "/">>              \* s://Y/
UBad == <<"s", ":", "/", "/", "[", "x", "/">>        \* s://[x/  (an unclosed bracket)

\* A site: the anchors (href values, in document order) of each page it
\* serves as HTML.  A URL the site does not list serves a page with no anchor.

\* Every URL shape: fragment, trailing slash, query, host case, self link,
\* repeated link, other path of the host, other host.
SiteVariants ==
    (UA :> <<UB, UBs, UBg, UA, UXB, UY, UO, UAn, UBq>>)
 @@ (UB :> <<UA, UC, UY, UB, UBs>>)
 @@ (UBq :> <<UC, UXA>>)
 @@ (UC :> <<UB, UY>>)

\* Six pages in three levels: F is linked from B (level 1) and from E (level 2).
SiteLevels ==
    (UA :> <<UB, UC>>)
 @@ (UB :> <<UF>>)
 @@ (UC :> <<UE>>)
 @@ (UE :> <<UH, UF>>)

\* A start page with five in-boundary links.
SiteFan ==
    (UA :> <<UB, UC, UE, UF, UH>>)
 @@ (UB :> <<UA, UY>>)

\* A site whose host is written in upper case in the start URL.
SiteUpper ==
    (UXA :> <<UXB, UB, UXA, UA, UOY>>)
 @@ (UXB :> <<UXA, UY, UOY, UYU, UY>>)

\* A site with a link whose target cannot be parsed.
SiteBroken ==
    (UA :> <<UB>>)
 @@ (UB :> <<UC, UBad>>)

Sites ==
    ("variants" :> SiteVariants)
 @@ ("levels" :> SiteLevels)
 @@ ("fan" :> SiteFan)
 @@ ("upper" :> SiteUpper)
 @@ ("broken" :> SiteBroken)

\* The anchors of the page the site serves at url.
site_links(name, u) == IF u \in DOMAIN Sites[name] THEN Sites[name][u] ELSE <<>>

\* official_domains: None, or a list of domain names.
None == <<>>
Some(list) == <<list>>

\* The runs: (start_url, base_path, site, largest max_pages, delay,
\* output_dir_name, official_domains, whether writing to the output directory
\* can fail).  The delay is in tenths of a second.
Runs ==
    { <<UA, PathD, "variants", MaxBudget, 1, "docs", Some(<< <<"x">> >>), FALSE>>,
      <<UA, PathD, "levels", MaxBudget, 5, "docs", None, FALSE>>,
      <<UA, PathD, "fan", MaxFanBudget, 1, "docs", Some(<<>>), TRUE>>,
      <<UXA, PathD, "upper", MaxBudget, 3, "docs",
        Some(<< <<" ", "Y", " ">> >>), TRUE>>,
      <<UA, PathD, "broken", MaxFanBudget, 1, "docs", None, TRUE>>,
      \* a start URL with a fragment
      <<UBg, PathD, "variants", MaxBudget, 1, "HTTPie", Some(<< <<"y">>, <<"x">> >>), TRUE>>,
      \* a start URL outside the base path
      <<UO, PathD, "variants", MaxBudget, 1, "docs", Some(<< <<"y">> >>), TRUE>>,
      \* a start URL with an upper-case scheme
      <<USA, PathD, "variants", MaxBudget, 0, "docs", None, TRUE>>,
      \* a base path without trailing slash
      <<UB, <<"/", "d">>, "variants", MaxFanBudget, 2, "docs", None, TRUE>> }

\* What one fetch attempt can end in: an HTML page, a response of another
\* content type, an HTTP error status, a transport error.
HttpCodes == {404, 503}

\* ------------------------------------------------------------------------
\* DocParser
\* ------------------------------------------------------------------------

\* Tag names are strings.  "j" stands for the scheme name javascript.
IGNORE_TAGS ==
    {"script", "style", "nav", "footer", "header",
     "noscript", "svg", "iframe", "button", "form"}

\* SKIP_SCHEMES = ("javascript:", "mailto:", "tel:", "#", "data:"), on the
\* strings of the model: those of the hrefs the model feeds.
SKIP_SCHEMES == {<<"j", ":">>, <<"#">>}

\* DocParser(base_url): the parser after __init__.
DocParser(base_url) ==
    [base_url |-> base_url,
     links |-> <<>>,
     text_parts |-> <<>>,
     tag_stack |-> <<>>,
     inside_ignored |-> 0]

\* dict(attrs).get(name): the value of the last attribute of that name (None
\* for an attribute written without a value), None when there is none.
dict_get(attrs, name) ==
    IF \E i \in 1..Len(attrs) : attrs[i][1] = name
    THEN attrs[CHOOSE i \in 1..Len(attrs) :
                   /\ attrs[i][1] = name
                   /\ \A j \in (i + 1)..Len(attrs) : attrs[j][1] # name][2]
    ELSE None

\* Variant of skipped: no href is taken for inert.
skipped_never(href) == FALSE

\* href.startswith(self.SKIP_SCHEMES)
skipped(href) == \E prefix \in SKIP_SCHEMES : startswith(href, prefix)

\* if href and not href.startswith(self.SKIP_SCHEMES)
live(href) == href # None /\ href[1] # <<>> /\ ~skipped(href[1])

\* Variant of push_tag: the counter is a flag, set to 1 by an ignored tag.
push_tag_flag(p, tag) ==
    [p EXCEPT !.tag_stack = Append(@, tag),
              !.inside_ignored = IF tag \in IGNORE_TAGS THEN 1 ELSE @]

\* The first lines of handle_starttag: the tag is pushed on the stack, and the
\* depth counter goes up for an ignored tag.
push_tag(p, tag) ==
    [p EXCEPT !.tag_stack = Append(@, tag),
              !.inside_ignored = IF tag \in IGNORE_TAGS THEN @ + 1 ELSE @]

\* Whether handle_starttag raises: the href of the anchor makes urljoin raise
\* ValueError.
starttag_raises(tag, attrs) ==
    \E href \in {dict_get(attrs, "href")} :
        tag = "a" /\ live(href) /\ invalid_netloc(href[1])

\* handle_starttag, when it returns.
handle_starttag(p, tag, attrs) ==
    the({ IF tag = "a" /\ live(href)
          THEN [pushed EXCEPT !.links =
                   Append(@, urldefrag(urljoin(p.base_url, href[1])))]
          ELSE pushed :
          pushed \in {push_tag(p, tag)}, href \in {dict_get(attrs, "href")} })

\* max(0, n - 1)
decrement(n) == IF n - 1 > 0 THEN n - 1 ELSE 0

\* Variant of pop_tag: the depth counter goes down only for the tag that is
\* being closed.
pop_tag_exact(p, tag) ==
    [p EXCEPT !.tag_stack = SubSeq(@, 1, Len(@) - 1),
              !.inside_ignored =
                  IF p.tag_stack[Len(p.tag_stack)] \in IGNORE_TAGS
                     /\ p.tag_stack[Len(p.tag_stack)] = tag
                  THEN decrement(@) ELSE @]

\* One pass of the while loop of handle_endtag: the top of the stack is
\* popped, and the depth counter goes down when it is an ignored tag.
pop_tag(p, tag) ==
    [p EXCEPT !.tag_stack = SubSeq(@, 1, Len(@) - 1),
              !.inside_ignored =
                  IF p.tag_stack[Len(p.tag_stack)] \in IGNORE_TAGS
                  THEN decrement(@) ELSE @]

\* handle_endtag: the stack is popped back to the matching tag, or emptied
\* when there is none.
RECURSIVE handle_endtag(_, _)
handle_endtag(p, tag) ==
    IF p.tag_stack = <<>> THEN p
    ELSE IF p.tag_stack[Len(p.tag_stack)] = tag THEN pop_tag(p, tag)
    ELSE handle_endtag(pop_tag(p, tag), tag)

\* Variant of suppressed: text is captured at every depth.
suppressed_never(depth) == FALSE

\* if self._inside_ignored > 0: return
suppressed(depth) == depth > 0

\* handle_data
handle_data(p, data) ==
    IF suppressed(p.inside_ignored) THEN p
    ELSE IF strip(data) # <<>> THEN [p EXCEPT !.text_parts = Append(@, strip(data))]
    ELSE p

\* ------------------------------------------------------------------------
\* crawl_docs
\* ------------------------------------------------------------------------

VARIABLES
    start_url,            \* parameter
    base_path,            \* parameter
    max_pages,            \* parameter
    delay,                \* parameter
    output_dir_name,      \* parameter
    official_domains,     \* parameter
    site,                 \* the site crawled (environment)
    disk_fails,           \* whether writing a page file can fail (environment)
    queue,                \* list of URLs
    visited,              \* set of normalized URLs
    visited_original,     \* list of original URLs, in visit order
    errors,               \* list of {url, error, attempt}
    all_external_links,   \* page URL -> list of (href, domain)
    url,                  \* the URL being fetched
    attempt,              \* the attempt number of the retry loop
    pc,                   \* "loop", "fetch", "sleep", "done", "exited", "aborted"
    fetch_log,            \* every urlopen call made: (url, attempt, outcome)
    sleeps,               \* every time.sleep call made: (url, attempt, duration),
                          \*   with attempt 0 for the sleep that ends a pass
    files,                \* the page files of the output directory: name -> URL line
                          \*   (<<>> for a file cut short before its URL line)
    all_links,            \* <<>> until _all_links.txt is written, then <<its lines>>
    audit,                \* <<>> until _link_audit.md is written, then <<its sections>>
    summary,              \* <<>> until the run returns, then <<the summary dict>>
    crawl_meta,           \* <<>> until _crawl_meta.json is written, then <<the dict dumped>>
    exit_status,          \* <<>> until main calls sys.exit, then <<the status>>
    norm_args,            \* the two URLs normalize_url is called on, <<>> in a run
    norm_result,          \* <<>>, then what the two calls returned
    parser,               \* <<>> in a run, else <<the DocParser that is fed>>
    fed                   \* the handler calls feed() has made on the parser

vars == <<start_url, base_path, max_pages, delay, output_dir_name, official_domains,
          site, disk_fails, queue, visited, visited_original, errors,
          all_external_links, url, attempt, pc, fetch_log, sleeps, files, all_links, audit, summary,
          crawl_meta, exit_status, norm_args, norm_result, parser, fed>>

params == <<start_url, base_path, max_pages, delay, output_dir_name, official_domains,
            site, disk_fails>>

\* What crawl_docs writes and returns after the while loop.
outputs == <<all_links, audit, summary, crawl_meta>>

\* The calls of normalize_url and of the DocParser handlers made outside a run.
calls == <<norm_args, norm_result, parser, fed>>

\* The variables of a run.
crawl == <<queue, visited, visited_original, errors, all_external_links, url, attempt,
           pc, fetch_log, sleeps, files, all_links, audit, summary, crawl_meta,
           exit_status>>

max_retries == 3

\* Variant of retry_codes: 503 is missing from the list.
retry_codes_no_503 == {429, 500, 502, 504}

\* exc.code in (429, 500, 502, 503, 504)
retry_codes == {429, 500, 502, 503, 504}

\* base_prefix = f"{parsed_start.scheme}://{parsed_start.netloc}{base_path}"
prefix_of(parsed_start, path) ==
    parsed_start.scheme \o <<":", "/", "/">> \o parsed_start.netloc \o path

base_prefix == the({ prefix_of(parsed_start, base_path) : parsed_start \in {urlparse(start_url)} })

\* f"HTTP {exc.code}"
http_error(code) ==
    CASE code = 404 -> "HTTP 404"
      [] code = 503 -> "HTTP 503"
      [] OTHER -> "HTTP"

\* str(exc) of the transport error the model's network raises.
url_error == "<urlopen error timed out>"

\* The characters of a string of the model, joined into one str.
RECURSIVE join(_)
join(sq) == IF Len(sq) = 0 THEN "" ELSE Head(sq) \o join(Tail(sq))

\* os.path.join(output_dir, fname), under a project root /p.
file_path(dir_name, fname) == "/p/" \o dir_name \o "/scraped_docs/" \o join(fname)

\* str(exc) of the OSError that open(fpath, "w") raises.
os_error(fpath) == "[Errno 21] Is a directory: '" \o fpath \o "'"

\* sub in s, on str
contains(s, sub) ==
    \E i \in 1..(Len(s) - Len(sub) + 1) : SubSeq(s, i, i + Len(sub) - 1) = sub

\* Variant of pending: the queue is not scanned.
pending_never(q, link_norm) == FALSE

\* Whether normalize_url(q) == link_norm for some q of the queue.
pending(q, link_norm) == \E i \in 1..Len(q) : normalize_url(q[i]) = link_norm

\* dict.setdefault(key, []).append(item)
setdefault_append(d, key, item) ==
    IF key \in DOMAIN d THEN [d EXCEPT ![key] = Append(@, item)]
    ELSE d @@ (key :> <<item>>)

\* Variant of process_link_as: the link is queued whatever it starts with.
process_link_as_unbounded(st, link, link_norm, link_domain, prefix) ==
    IF link_norm \notin visited /\ ~pending(st.queue, link_norm)
    THEN [st EXCEPT !.queue = Append(@, link)]
    ELSE st

\* One pass of "for link in parser.links": the link is queued when it starts
\* with base_prefix, is not visited and is not pending; it is recorded as
\* external when it does not start with base_prefix.
process_link_as(st, link, link_norm, link_domain, prefix) ==
    IF startswith(link, prefix)
    THEN IF link_norm \notin visited /\ ~pending(st.queue, link_norm)
         THEN [st EXCEPT !.queue = Append(@, link)]
         ELSE st
    ELSE [st EXCEPT !.ext = setdefault_append(@, url, <<link, link_domain>>)]

process_link(st, link, prefix) ==
    the({ process_link_as(s, link, link_norm, link_domain, prefix) :
              s \in {st},
              link_norm \in {normalize_url(link)},
              link_domain \in {str_lower(urlparse(link).netloc)} })

\* "for link in parser.links", from the queue and the external links of st.
process_links(st, links, prefix) ==
    LET after[i \in 0..Len(links)] ==
            IF i = 0 THEN st ELSE process_link(after[i - 1], links[i], prefix)
    IN  after[Len(links)]

Init ==
    /\ \E r \in Runs :
         /\ start_url = r[1]
         /\ base_path = r[2]
         /\ site = r[3]
         /\ max_pages \in 0..r[4]
         /\ delay = r[5]
         /\ output_dir_name = r[6]
         /\ official_domains = r[7]
         /\ disk_fails = r[8]
    /\ queue = <<start_url>>
    /\ visited = {}
    /\ visited_original = <<>>
    /\ errors = <<>>
    /\ all_external_links = <<>>
    /\ url = <<>>
    /\ attempt = 0
    /\ pc = "loop"
    /\ fetch_log = <<>>
    /\ sleeps = <<>>
    /\ files = <<>>
    /\ all_links = <<>>
    /\ audit = <<>>
    /\ summary = <<>>
    /\ crawl_meta = <<>>
    /\ exit_status = <<>>
    /\ norm_args = <<>>
    /\ norm_result = <<>>
    /\ parser = <<>>
    /\ fed = <<>>

\* Variant of loop_guard: the loop is left with one URL in the queue.
loop_guard_one_left == Len(queue) > 1 /\ Cardinality(visited) < max_pages

\* Variant of loop_guard: the budget is not tested.
loop_guard_queue_only == queue # <<>>

\* Variant of loop_guard: the budget test is "<=".
loop_guard_le == queue # <<>> /\ Cardinality(visited) <= max_pages

\* while queue and len(visited) < max_pages
loop_guard == queue # <<>> /\ Cardinality(visited) < max_pages

\* Variant of queue_pop: queue.pop(), the last URL.
queue_pop_last(q) == <<q[Len(q)], SubSeq(q, 1, Len(q) - 1)>>

\* Variant of queue_pop: queue[0], the head is read and left in the queue.
queue_peek(q) == <<Head(q), q>>

\* queue.pop(0): the URL popped and the queue left.
queue_pop(q) == <<Head(q), Tail(q)>>

\* Variant of skip: the boundary test on the dequeued URL is missing.
skip_visited_only(u, norm) == norm \in visited

\* The two "continue" tests: the URL is visited, or outside the boundary.
skip(u, norm) == norm \in visited \/ ~startswith(u, base_prefix)

\* Variant of visited_add: the URL is not marked visited.
visited_add_forgot(vis, u, norm) == vis

\* Variant of visited_add: the original URL is added, not its normalized form.
visited_add_raw(vis, u, norm) == vis \cup {u}

\* visited.add(norm)
visited_add(vis, u, norm) == vis \cup {norm}

\* One pass of the while loop up to the retry loop: pop the head of the queue;
\* a visited URL and a URL outside the boundary are dropped ("continue");
\* any other is marked visited and goes to its first fetch attempt.
Dequeue ==
    /\ pc = "loop"
    /\ loop_guard
    /\ \E popped \in {queue_pop(queue)} :
         /\ queue' = popped[2]
         /\ url' = popped[1]
         /\ \E norm \in {normalize_url(popped[1])} :
              IF skip(popped[1], norm)
              THEN /\ pc' = "loop"
                   /\ UNCHANGED <<visited, visited_original, attempt>>
              ELSE /\ visited' = visited_add(visited, popped[1], norm)
                   /\ visited_original' = Append(visited_original, popped[1])
                   /\ attempt' = 1
                   /\ pc' = "fetch"
    /\ UNCHANGED <<params, errors, all_external_links, fetch_log, sleeps, files, outputs, exit_status, calls>>

\* What the server answers an attempt that gets a response with: the value of
\* the Content-Type header, in its parts.
ContentTypes ==
    ("ok" :> <<"text/html", "; charset=utf-8">>)
 @@ ("nonhtml" :> <<"application/pdf">>)

\* Variant of is_html: every response is taken for HTML.
is_html_any(ctype) == TRUE

\* "text/html" in ctype
is_html(ctype) == \E i \in 1..Len(ctype) : ctype[i] = "text/html"

\* Whether parser.feed(html) raises on the page at u: a link target of the
\* page makes urljoin raise ValueError.
feed_raises(u) ==
    \E i \in 1..Len(site_links(site, u)) : invalid_netloc(site_links(site, u)[i])

\* An attempt answered with an HTML page: the page is parsed and saved, its
\* links are queued or recorded as external, and the retry loop is left.
FetchOk ==
    /\ pc = "fetch"
    /\ ~feed_raises(url)
    /\ \E kind \in DOMAIN ContentTypes :
         /\ is_html(ContentTypes[kind])
         /\ fetch_log' = Append(fetch_log, <<url, attempt, kind>>)
    /\ files' = (make_filename(url, base_path) :> url) @@ files
    /\ \E links \in {parser_links(url, site_links(site, url))}, prefix \in {base_prefix} :
         \E st \in {process_links([queue |-> queue, ext |-> all_external_links],
                                  links, prefix)} :
            /\ queue' = st.queue
            /\ all_external_links' = st.ext
    /\ pc' = "sleep"
    /\ UNCHANGED <<params, visited, visited_original, errors, url, attempt, sleeps,
                   outputs, exit_status, calls>>

\* Variant of FetchNonHtml: the pass of the while loop ends with the skip,
\* without the sleep that ends a pass.
FetchNonHtmlContinue ==
    /\ pc = "fetch"
    /\ \E kind \in DOMAIN ContentTypes :
         /\ ~is_html(ContentTypes[kind])
         /\ fetch_log' = Append(fetch_log, <<url, attempt, kind>>)
    /\ pc' = "loop"
    /\ UNCHANGED <<params, queue, visited, visited_original, errors,
                   all_external_links, url, attempt, sleeps, files, outputs, exit_status, calls>>

\* An attempt answered with a Content-Type that is not text/html: break.
FetchNonHtml ==
    /\ pc = "fetch"
    /\ \E kind \in DOMAIN ContentTypes :
         /\ ~is_html(ContentTypes[kind])
         /\ fetch_log' = Append(fetch_log, <<url, attempt, kind>>)
    /\ pc' = "sleep"
    /\ UNCHANGED <<params, queue, visited, visited_original, errors,
                   all_external_links, url, attempt, sleeps, files, outputs, exit_status, calls>>

\* wait = delay * (2 ** attempt)
http_backoff(a) == delay * (2 ^ a)

\* The wait before the next attempt after a transport error or an OSError.
url_backoff(a) == delay * 2

\* Variant of retryable: every HTTP status is retried.
retryable_any(code) == TRUE

\* exc.code in (429, 500, 502, 503, 504)
retryable(code) == code \in retry_codes

\* except urllib.error.HTTPError
FetchHTTPError(code) ==
    /\ pc = "fetch"
    /\ Len(errors) < MaxFail
    /\ errors' = Append(errors, [url |-> url, error |-> http_error(code), attempt |-> attempt])
    /\ fetch_log' = Append(fetch_log, <<url, attempt, http_error(code)>>)
    /\ IF retryable(code) /\ attempt < max_retries
       THEN /\ sleeps' = Append(sleeps, <<url, attempt, http_backoff(attempt)>>)
            /\ attempt' = attempt + 1
            /\ pc' = "fetch"
       ELSE /\ sleeps' = sleeps
            /\ attempt' = attempt
            /\ pc' = "sleep"
    /\ UNCHANGED <<params, queue, visited, visited_original, all_external_links,
                   url, files, outputs, exit_status, calls>>

\* Variant of on_os_error: the error is not logged.
on_os_error_unlogged(description) ==
    /\ errors' = errors
    /\ fetch_log' = Append(fetch_log, <<url, attempt, description>>)
    /\ IF attempt < max_retries
       THEN /\ sleeps' = Append(sleeps, <<url, attempt, url_backoff(attempt)>>)
            /\ attempt' = attempt + 1
            /\ pc' = "fetch"
       ELSE /\ sleeps' = sleeps
            /\ attempt' = attempt
            /\ pc' = "sleep"
    /\ UNCHANGED <<params, queue, visited, visited_original, all_external_links,
                   url, files, outputs, exit_status, calls>>

\* The except clause for urllib.error.URLError and OSError: the error is
\* logged; another attempt follows a wait, but for the last attempt.
on_os_error(description) ==
    /\ errors' = Append(errors, [url |-> url, error |-> description, attempt |-> attempt])
    /\ fetch_log' = Append(fetch_log, <<url, attempt, description>>)
    /\ IF attempt < max_retries
       THEN /\ sleeps' = Append(sleeps, <<url, attempt, url_backoff(attempt)>>)
            /\ attempt' = attempt + 1
            /\ pc' = "fetch"
       ELSE /\ sleeps' = sleeps
            /\ attempt' = attempt
            /\ pc' = "sleep"
    /\ UNCHANGED <<params, queue, visited, visited_original, all_external_links,
                   url, files, outputs, exit_status, calls>>

\* urlopen raises urllib.error.URLError.
FetchURLError ==
    /\ pc = "fetch"
    /\ Len(errors) < MaxFail
    /\ on_os_error(url_error)

\* The page is fetched and parsed, and open(fpath, "w") raises OSError.
FetchWriteError ==
    /\ pc = "fetch"
    /\ disk_fails
    /\ Len(errors) < MaxFail
    /\ ~feed_raises(url)
    /\ on_os_error(os_error(file_path(output_dir_name, make_filename(url, base_path))))

\* str(exc) of the OSError that fout.write raises on a full disk.
disk_full_error == "[Errno 28] No space left on device"

\* The page is fetched and parsed, open(fpath, "w") creates the file (or cuts
\* the file of that name to nothing), and a write to it raises OSError: the
\* file is left cut short, with its URL line or without it.
FetchWriteCut ==
    /\ pc = "fetch"
    /\ disk_fails
    /\ Len(errors) < MaxFail
    /\ ~feed_raises(url)
    /\ \E written \in {<<>>, url} :
         files' = (make_filename(url, base_path) :> written) @@ files
    /\ errors' = Append(errors, [url |-> url, error |-> disk_full_error, attempt |-> attempt])
    /\ fetch_log' = Append(fetch_log, <<url, attempt, disk_full_error>>)
    /\ IF attempt < max_retries
       THEN /\ sleeps' = Append(sleeps, <<url, attempt, url_backoff(attempt)>>)
            /\ attempt' = attempt + 1
            /\ pc' = "fetch"
       ELSE /\ sleeps' = sleeps
            /\ attempt' = attempt
            /\ pc' = "sleep"
    /\ UNCHANGED <<params, queue, visited, visited_original, all_external_links,
                   url, outputs, exit_status, calls>>

\* resp.read() raises http.client.IncompleteRead, which no except clause of
\* crawl_docs catches: the exception leaves crawl_docs.
FetchReadError ==
    /\ pc = "fetch"
    /\ fetch_log' = Append(fetch_log, <<url, attempt, "IncompleteRead">>)
    /\ pc' = "aborted"
    /\ UNCHANGED <<params, queue, visited, visited_original, errors,
                   all_external_links, url, attempt, sleeps, files, outputs, exit_status, calls>>

\* parser.feed(html) raises ValueError, which no except clause of crawl_docs
\* catches: the exception leaves crawl_docs.
FetchFeedError ==
    /\ pc = "fetch"
    /\ feed_raises(url)
    /\ fetch_log' = Append(fetch_log, <<url, attempt, "ValueError">>)
    /\ pc' = "aborted"
    /\ UNCHANGED <<params, queue, visited, visited_original, errors,
                   all_external_links, url, attempt, sleeps, files, outputs, exit_status, calls>>

\* time.sleep(delay) at the end of a pass of the while loop.
Sleep ==
    /\ pc = "sleep"
    /\ sleeps' = Append(sleeps, <<url, 0, delay>>)
    /\ pc' = "loop"
    /\ UNCHANGED <<params, queue, visited, visited_original, errors,
                   all_external_links, url, attempt, fetch_log, files, outputs, exit_status, calls>>

\* Variant of make_summary: pages_crawled counts the pages saved.
make_summary_saved ==
    [start_url     |-> start_url,
     base_path     |-> base_path,
     pages_crawled |-> Cardinality({i \in 1..Len(fetch_log) : fetch_log[i][3] = "ok"}),
     errors        |-> Len(errors),
     error_details |-> errors]

\* The elements of sq at the indices of I, in the order of sq.
keep(sq, I) ==
    [k \in 1..Cardinality(I) |->
        sq[CHOOSE i \in I : Cardinality({j \in I : j < i}) = k - 1]]

\* Variant of make_summary: the errors of one URL are counted and listed once.
make_summary_per_url ==
    the({ [start_url     |-> start_url,
           base_path     |-> base_path,
           pages_crawled |-> Cardinality(visited),
           errors        |-> Len(details),
           error_details |-> details] :
          details \in { keep(errors, {i \in 1..Len(errors) :
                                         \A j \in 1..(i - 1) : errors[j].url # errors[i].url}) } })

\* Variant of make_summary: errors counts the pages that were not fetched
\* with success.
make_summary_failed_pages ==
    [start_url     |-> start_url,
     base_path     |-> base_path,
     pages_crawled |-> Cardinality(visited),
     errors        |-> Cardinality({errors[i].url : i \in 1..Len(errors)}
                           \ {fetch_log[i][1] : i \in {k \in 1..Len(fetch_log) :
                                                        fetch_log[k][3] = "ok"}}),
     error_details |-> errors]

\* The summary dict crawl_docs builds and returns.
make_summary ==
    [start_url     |-> start_url,
     base_path     |-> base_path,
     pages_crawled |-> Cardinality(visited),
     errors        |-> Len(errors),
     error_details |-> errors]

\* Variant of make_all_links: the URLs are written in the order of the visits.
make_all_links_unsorted == visited_original

\* The lines of _all_links.txt: for u in sorted(visited_original).
make_all_links == sorted(visited_original)

\* Variant of official_set: the domains are taken as the caller wrote them.
official_set_raw == {official_domains[1][i] : i \in 1..Len(official_domains[1])}

\* official_set = {d.lower().strip() for d in official_domains}
official_set == {strip(str_lower(official_domains[1][i])) : i \in 1..Len(official_domains[1])}

\* The concatenation of the lists of a list.
flatten(lists) ==
    LET upto[i \in 0..Len(lists)] == IF i = 0 THEN <<>> ELSE upto[i - 1] \o lists[i]
    IN  upto[Len(lists)]

\* The (href, domain, page_url) of "for page_url, links_list in
\* all_external_links.items(): for href, domain in links_list": the pages come
\* in the order they were visited in, which is the order of the dict's keys.
external_items ==
    the({ flatten(lists) :
          lists \in { the({ [i \in 1..Len(pages) |->
                               [j \in 1..Len(all_external_links[pages[i]]) |->
                                   <<all_external_links[pages[i]][j][1],
                                     all_external_links[pages[i]][j][2],
                                     pages[i]>>]] :
                           pages \in { SelectSeq(visited_original,
                                          LAMBDA p : p \in DOMAIN all_external_links) } }) } })

\* official_links (official = TRUE) and third_party_links (official = FALSE):
\* the (href, page_url) of the items whose domain is in the official set, or is
\* not, under their domain.
classify(items, official) ==
    the({ [d \in {items[i][2] : i \in chosen} |->
              the({ [k \in 1..Len(of_d) |-> <<of_d[k][1], of_d[k][3]>>] :
                    of_d \in { keep(items, {i \in chosen : items[i][2] = d}) } })] :
          chosen \in { {i \in 1..Len(items) : (items[i][2] \in official_set) = official} } })

\* The domains of a dict of links, as a list.
keys(links) ==
    the({ [k \in 1..Cardinality(ds) |->
              CHOOSE d \in ds : Cardinality({o \in ds : str_lt(o, d)}) = k - 1] :
          ds \in {DOMAIN links} })

\* "for href, source in sorted(links[domain]): if href not in seen": the
\* pairs of the sorted list whose href occurs in no pair before them.
first_seen(pairs) ==
    the({ keep(ordered, {i \in 1..Len(ordered) :
                            \A j \in 1..(i - 1) : ordered[j][1] # ordered[i][1]}) :
          ordered \in {sorted_pairs(pairs)} })

\* The Official Links section: per domain, in sorted order, the line of each
\* href.
official_section(links) ==
    the({ [k \in 1..Len(domains) |->
              <<domains[k],
                the({ [n \in 1..Len(listed) |-> listed[n][1]] :
                      listed \in {first_seen(links[domains[k]])} })>>] :
          domains \in {sorted(keys(links))} })

\* The Third-Party Links section: per domain, in sorted order, the line of
\* each href, followed by its "Found on" line.
third_party_section(links) ==
    the({ [k \in 1..Len(domains) |->
              <<domains[k],
                the({ [n \in 1..Len(listed) |-> <<listed[n][1], <<listed[n][2]>> >>] :
                      listed \in {first_seen(links[domains[k]])} })>>] :
          domains \in {sorted(keys(links))} })

\* Variant of dead_links: a URL is listed once, with its first error.
dead_links_per_url ==
    keep(errors, {i \in 1..Len(errors) :
                     /\ contains(errors[i].error, "HTTP")
                     /\ \A j \in 1..(i - 1) : errors[j].url # errors[i].url})

\* dead_links = [e for e in errors if "HTTP" in e.get("error", "")]
dead_links == keep(errors, {i \in 1..Len(errors) : contains(errors[i].error, "HTTP")})

\* The Dead Links section: the line of each entry, its URL and its error.
dead_section(entries) == [i \in 1..Len(entries) |-> <<entries[i].url, entries[i].error>>]

\* The sections of _link_audit.md.
make_audit ==
    the({ the({ [official    |-> official_section(official_links),
                 third_party |-> third_party_section(third_party_links),
                 dead        |-> dead_section(dead)] :
                official_links \in {classify(items, TRUE)},
                third_party_links \in {classify(items, FALSE)},
                dead \in {dead_links} }) :
          items \in {external_items} })

\* Variant of audit_wanted: if official_domains is not None.
audit_wanted_not_none == official_domains # None

\* if official_domains:
audit_wanted == official_domains # None /\ official_domains[1] # <<>>

\* audit_path = os.path.join(output_dir, "_link_audit.md")
audit_path == file_path(output_dir_name, <<"_link_audit.md">>)

\* summary["link_audit"] = audit_path
with_link_audit(s) ==
    [start_url     |-> s.start_url,
     base_path     |-> s.base_path,
     pages_crawled |-> s.pages_crawled,
     errors        |-> s.errors,
     error_details |-> s.error_details,
     link_audit    |-> audit_path]

\* The while loop is left: the outputs are written and the summary returned,
\* with the path of the audit report when one is written.
Finish ==
    /\ pc = "loop"
    /\ ~loop_guard
    /\ all_links' = <<make_all_links>>
    /\ crawl_meta' = <<make_summary>>
    /\ summary' = <<IF audit_wanted THEN with_link_audit(make_summary) ELSE make_summary>>
    /\ audit' = IF audit_wanted THEN <<make_audit>> ELSE <<>>
    /\ pc' = "done"
    /\ UNCHANGED <<params, queue, visited, visited_original, errors,
                   all_external_links, url, attempt, fetch_log, sleeps, files,
                   exit_status, calls>>

\* Variant of exit_code: a run that visited a page is a success.
exit_code_visited(s) == IF s.pages_crawled > 0 THEN 0 ELSE 1

\* 0 if summary["errors"] == 0 else 1
exit_code(s) == IF s.errors = 0 THEN 0 ELSE 1

\* main: crawl_docs has returned its summary, and sys.exit is called.
Exit ==
    /\ pc = "done"
    /\ exit_status' = <<exit_code(summary[1])>>
    /\ pc' = "exited"
    /\ UNCHANGED <<params, queue, visited, visited_original, errors,
                   all_external_links, url, attempt, fetch_log, sleeps, files,
                   outputs, calls>>

\* A pass of the while loop and what follows it, with a fetch attempt ending
\* in a response, an HTTP error status or a transport error.
Step ==
    \/ Dequeue
    \/ FetchOk
    \/ FetchNonHtml
    \/ \E code \in HttpCodes : FetchHTTPError(code)
    \/ FetchURLError
    \/ Sleep
    \/ Finish
    \/ Exit

Next ==
    \/ Step
    \/ FetchWriteError
    \/ FetchWriteCut
    \/ FetchReadError
    \/ FetchFeedError

Spec == Init /\ [][Next]_vars

\* The sites all of whose link targets can be parsed.
WellFormed == \A p \in DOMAIN Sites[site] : \A i \in 1..Len(Sites[site][p]) :
                  ~invalid_netloc(Sites[site][p][i])

\* The runs on a site whose link targets can be parsed.
FairInit == Init /\ WellFormed

\* The scheduling of a sequential program: it takes its next step.  The runs
\* are those on a site whose link targets can be parsed, in which every fetch
\* attempt ends in a response, an HTTP error status or a transport error.
FairSpec == FairInit /\ [][Step]_vars /\ WF_vars(Step)

\* ------------------------------------------------------------------------
\* normalize_url, applied to two URLs
\* ------------------------------------------------------------------------

\* The parts the URLs are written from: the query with its "?", the fragment
\* with its "#", <<>> for a URL without one.
Schemes == {<<"s">>, <<"S">>}
Hosts == {<<"x">>, <<"X">>}
Paths == {<<>>, <<"/">>, <<"/", "d">>, <<"/", "d", "/">>, <<"/", "d", "/", "/">>,
          <<"/", "d", "/", "b">>}
Queries == {<<>>, <<"?">>, <<"?", "q">>}
Fragments == {<<>>, <<"#", "g">>}

UrlParts == [scheme : Schemes, host : Hosts, path : Paths, query : Queries,
             fragment : Fragments]

\* The URL written from its parts.
url_text(parts) ==
    parts.scheme \o <<":", "/", "/">> \o parts.host \o parts.path \o parts.query
        \o parts.fragment

\* The crawler at rest: no run is under way.
Idle ==
    /\ start_url = UA
    /\ base_path = PathD
    /\ max_pages = 0
    /\ delay = 0
    /\ output_dir_name = "docs"
    /\ official_domains = None
    /\ site = "levels"
    /\ disk_fails = FALSE
    /\ queue = <<>>
    /\ visited = {}
    /\ visited_original = <<>>
    /\ errors = <<>>
    /\ all_external_links = <<>>
    /\ url = <<>>
    /\ attempt = 0
    /\ pc = "idle"
    /\ fetch_log = <<>>
    /\ sleeps = <<>>
    /\ files = <<>>
    /\ all_links = <<>>
    /\ audit = <<>>
    /\ summary = <<>>
    /\ crawl_meta = <<>>
    /\ exit_status = <<>>

NormInit ==
    /\ Idle
    /\ norm_args \in UrlParts \X UrlParts
    /\ norm_result = <<>>
    /\ parser = <<>>
    /\ fed = <<>>

\* normalize_url is called on each of the two URLs.
Normalize ==
    /\ norm_args # <<>>
    /\ norm_result = <<>>
    /\ norm_result' = <<normalize_url(url_text(norm_args[1])),
                        normalize_url(url_text(norm_args[2]))>>
    /\ UNCHANGED <<params, crawl, norm_args, parser, fed>>

NormSpec == NormInit /\ [][Normalize]_vars

\* ------------------------------------------------------------------------
\* DocParser.feed, one handler call at a time
\* ------------------------------------------------------------------------

\* The markup fed: an anchor, a paragraph, and two ignored elements.
Tags == {"a", "p", "nav", "noscript"}

\* The attribute lists of the anchors: no href, an href without a value, an
\* empty href, a fragment-only href, a javascript: href, a URL with a
\* fragment, and a URL that cannot be parsed.
AnchorAttrs ==
    { <<>>,
      << <<"href", None>> >>,
      << <<"href", Some(<<>>)>> >>,
      << <<"href", Some(<<"#", "g">>)>> >>,
      << <<"href", Some(<<"j", ":">>)>> >>,
      << <<"href", Some(UBg)>> >>,
      << <<"href", Some(UBad)>> >> }

\* The attribute lists a start tag is fed with.
attrs_of(tag) == IF tag = "a" THEN AnchorAttrs ELSE {<<>>}

\* The text nodes: white space, and a word with white space before it.
Texts == {<<" ">>, <<" ", "t">>}

\* parser = DocParser(url), before parser.feed(html).
ParseInit ==
    /\ Idle
    /\ norm_args = <<>>
    /\ norm_result = <<>>
    /\ parser = <<DocParser(UA)>>
    /\ fed = <<>>

\* feed() calls handle_starttag, which returns or raises ValueError.
StartTag ==
    /\ pc = "idle"
    /\ parser # <<>>
    /\ Len(fed) < MaxEvents
    /\ \E tag \in Tags : \E attrs \in attrs_of(tag) :
         /\ fed' = Append(fed, <<"start", tag, attrs>>)
         /\ IF starttag_raises(tag, attrs)
            THEN /\ parser' = <<push_tag(parser[1], tag)>>
                 /\ pc' = "aborted"
            ELSE /\ parser' = <<handle_starttag(parser[1], tag, attrs)>>
                 /\ pc' = pc
    /\ UNCHANGED <<params, queue, visited, visited_original, errors,
                   all_external_links, url, attempt, fetch_log, sleeps, files,
                   outputs, exit_status, norm_args, norm_result>>

\* feed() calls handle_endtag.
EndTag ==
    /\ pc = "idle"
    /\ parser # <<>>
    /\ Len(fed) < MaxEvents
    /\ \E tag \in Tags :
         /\ fed' = Append(fed, <<"end", tag>>)
         /\ parser' = <<handle_endtag(parser[1], tag)>>
    /\ UNCHANGED <<params, crawl, norm_args, norm_result>>

\* feed() calls handle_data.
Data ==
    /\ pc = "idle"
    /\ parser # <<>>
    /\ Len(fed) < MaxEvents
    /\ \E data \in Texts :
         /\ fed' = Append(fed, <<"data", data>>)
         /\ parser' = <<handle_data(parser[1], data)>>
    /\ UNCHANGED <<params, crawl, norm_args, norm_result>>

Feed == StartTag \/ EndTag \/ Data

ParseSpec == ParseInit /\ [][Feed]_vars

\* ------------------------------------------------------------------------
\* Properties
\* ------------------------------------------------------------------------

\* The fetch attempts made on URL u, in order.
attempts_of(u) == SelectSeq(fetch_log, LAMBDA e : e[1] = u)

\* The error-log entries of URL u, in order.
errors_of(u) == SelectSeq(errors, LAMBDA e : e.url = u)

\* The set of the elements of a sequence.
Range(sq) == the({ {s[i] : i \in 1..Len(s)} : s \in {sq} })

\* The fetch-attempt sequence of u is over.
finished(u) == u \in Range(visited_original) /\ ~(pc = "fetch" /\ url = u)

\* C1. Budget respected: the number of normalized URLs in visited never exceeds
\* max_pages, for every max_pages >= 0; with max_pages = 0 nothing is fetched and
\* visited stays empty.
BudgetRespected ==
    /\ Cardinality(visited) <= max_pages
    /\ max_pages = 0 => visited = {} /\ fetch_log = <<>>

\* A run cut by its budget: the budget is reached with URLs still pending.
BudgetReachedWitness ==
    /\ pc = "done"
    /\ max_pages >= 2
    /\ Cardinality(visited) = max_pages
    /\ queue # <<>>

\* C2. No duplicate visits: no two entries of visited_original have the same
\* normalized form, and no normalized URL is fetched twice: no two first
\* attempts are on the same normalized URL, and every later attempt follows a
\* failed attempt on the same URL.
NoDuplicateVisits ==
    /\ Cardinality({normalize_url(visited_original[i]) : i \in 1..Len(visited_original)})
           = Len(visited_original)
    /\ Cardinality({normalize_url(fetch_log[i][1]) :
                        i \in {k \in 1..Len(fetch_log) : fetch_log[k][2] = 1}})
           = Cardinality({k \in 1..Len(fetch_log) : fetch_log[k][2] = 1})
    /\ \A i \in 1..Len(fetch_log) :
         fetch_log[i][2] # 1 =>
             /\ i > 1
             /\ fetch_log[i - 1][1] = fetch_log[i][1]
             /\ fetch_log[i - 1][2] + 1 = fetch_log[i][2]
             /\ fetch_log[i - 1][3] \notin {"ok", "nonhtml"}

\* A page that links to itself and to a page it is linked from has been
\* fetched, and so has that page: the links back were not followed again.
NoDuplicateWitness ==
    /\ pc = "done"
    /\ site = "variants"
    /\ start_url = UA
    /\ visited_original = <<UA, UB, UBq, UC>>

\* C3. Boundary enforcement on fetch: every URL a fetch attempt is issued for,
\* and every URL of visited_original, starts with base_prefix.
BoundaryOnFetch ==
    \A prefix \in {base_prefix} :
        /\ \A i \in 1..Len(fetch_log) : startswith(fetch_log[i][1], prefix)
        /\ \A i \in 1..Len(visited_original) : startswith(visited_original[i], prefix)

\* A start URL outside the boundary was dequeued and dropped: nothing is fetched.
BoundaryDropWitness ==
    /\ pc = "done"
    /\ ~startswith(start_url, base_prefix)
    /\ url = start_url
    /\ fetch_log = <<>>

\* C4, as stated: every element of visited starts with base_prefix.
VisitedStartsWithPrefix ==
    \A prefix \in {base_prefix} : \A v \in visited : startswith(v, prefix)

\* C4, amended: every element of visited is the normalized form of a URL of
\* visited_original, each of which starts with base_prefix (and visited holds
\* the normalized form of every such URL).
VisitedIsNormalizedInBoundary ==
    /\ visited = {normalize_url(visited_original[i]) : i \in 1..Len(visited_original)}
    /\ \A prefix \in {base_prefix} :
         \A i \in 1..Len(visited_original) : startswith(visited_original[i], prefix)

\* The start URL is the boundary prefix with its trailing slash: it is visited,
\* and its normalized form, without the slash, does not start with the prefix.
VisitedPrefixWitness ==
    /\ start_url = base_prefix
    /\ visited_original # <<>>
    /\ normalize_url(start_url) \in visited
    /\ ~startswith(normalize_url(start_url), base_prefix)

\* C5. Retry bound: a URL whose fetch-attempt sequence is over and whose every
\* attempt returned HTTP 503 was attempted exactly 3 times, and the error log
\* holds exactly three entries for it, with attempts 1, 2, 3 in that order.
RetryBound ==
    \A u \in Range(visited_original) :
        finished(u) /\ (\A i \in 1..Len(attempts_of(u)) : attempts_of(u)[i][3] = "HTTP 503")
            => /\ Len(attempts_of(u)) = 3
               /\ errors_of(u) = [a \in 1..3 |->
                                    [url |-> u, error |-> "HTTP 503", attempt |-> a]]

\* The start page returned 503 three times, and the run went on to its end.
RetryBoundWitness ==
    /\ pc = "done"
    /\ Len(attempts_of(start_url)) = 3
    /\ \A i \in 1..3 : attempts_of(start_url)[i] = <<start_url, i, "HTTP 503">>
    /\ Len(fetch_log) = 3

QueueAdmission ==
    /\ Cardinality({normalize_url(queue[i]) : i \in 1..Len(queue)}) = Len(queue)
    /\ \A i \in 1..Len(queue) : normalize_url(queue[i]) \notin visited

\* The start page was parsed: of its links to s://x/d/b, s://x/d/b/ and
\* s://x/d/b#g only the first is queued, and its link to itself is not.
QueueAdmissionWitness ==
    /\ pc = "sleep"
    /\ site = "variants"
    /\ url = UA
    /\ base_path = PathD
    /\ queue = <<UB, UBq>>

\* The in-boundary links, between normalized URLs, of the pages of P.
link_edges(P) ==
    UNION { { <<from, normalize_url(l)>> :
                from \in {normalize_url(p)},
                l \in {x \in Range(parser_links(p, site_links(site, p))) :
                          startswith(x, prefix)} } : p \in P, prefix \in {base_prefix} }

\* The URLs reached from those of reached over the links of E, each with the
\* number of links followed: depths holds <<URL, number>> for those of reached,
\* the last of which were found by following k links.
RECURSIVE spread(_, _, _, _)
spread(E, reached, depths, k) ==
    the({ IF further = {} THEN depths
          ELSE spread(E, reached \cup further,
                      depths \cup {<<n, k + 1>> : n \in further}, k + 1) :
          further \in { {e[2] : e \in {d \in E : d[1] \in reached}} \ reached } })

\* The number of links of E to follow from the start URL to reach each URL of
\* sq (the number of links of E, plus one, for a URL no path leads to).
distances(E, sq) ==
    the({ [i \in 1..Len(sq) |->
              the({ IF \E d \in depths : d[1] = n
                    THEN (CHOOSE d \in depths : d[1] = n)[2]
                    ELSE Cardinality(E) + 1 : n \in {normalize_url(sq[i])} })] :
          depths \in { the({ spread(E, {src}, {<<src, 0>>}, 0) :
                             src \in {normalize_url(start_url)} }) } })

nondecreasing(ds) == \A i \in 1..(Len(ds) - 1) : ds[i] <= ds[i + 1]

\* The pages the site serves, but for those that answered the crawler with
\* another content type or with HTTP 404 (these have no links to follow).
site_pages ==
    DOMAIN Sites[site]
        \ {fetch_log[i][1] : i \in {k \in 1..Len(fetch_log) :
                                      fetch_log[k][3] \in {"nonhtml", "HTTP 404"}}}

\* The pages fetched and parsed.
saved_pages == {fetch_log[i][1] : i \in {k \in 1..Len(fetch_log) : fetch_log[k][3] = "ok"}}

\* C8, as stated: pages are visited in nondecreasing link distance from the
\* start URL, the distance being that of the site's links.
VisitedBySiteDistance ==
    \A ds \in {distances(link_edges(site_pages), visited_original)} : nondecreasing(ds)

\* Every step either appends to the tail of the queue or removes its head,
\* which is then the URL dequeued.
FifoStep ==
    \/ /\ Len(queue') >= Len(queue)
       /\ SubSeq(queue', 1, Len(queue)) = queue
    \/ /\ queue # <<>>
       /\ queue' = Tail(queue)
       /\ url' = Head(queue)

\* The distance over the links of the pages fetched and parsed so far never
\* decreases along the visited URLs followed by the queued ones.
DiscoveryOrdered ==
    \A ds \in {distances(link_edges(saved_pages), visited_original \o queue)} :
        nondecreasing(ds)

\* C8, amended: URLs leave the queue in FIFO order, and pages are visited in
\* nondecreasing link distance from the start URL, the distance being that of
\* the links of the pages fetched successfully; a queued URL is never at a
\* smaller such distance than a visited one.
BreadthFirst == []DiscoveryOrdered /\ [][FifoStep]_vars

\* Page b failed three times with a transient error, so its link to page f was
\* never seen: f (two links from the start) is visited after h (three links).
BreadthFirstWitness ==
    /\ pc = "done"
    /\ site = "levels"
    /\ visited_original = <<UA, UB, UC, UE, UH, UF>>
    /\ Len(errors_of(UB)) = 3

\* C9. pagesVisited == |visited|: visited_original is as long as visited is
\* large, and the summary's pages_crawled is that size; pages that failed or
\* were skipped as non-HTML are counted.
PagesVisitedIsVisited ==
    /\ Len(visited_original) = Cardinality(visited)
    /\ pc = "done" => summary[1].pages_crawled = Cardinality(visited)

\* A finished run with a page saved, a page skipped as non-HTML and a page
\* that failed.
PagesVisitedWitness ==
    /\ pc = "done"
    /\ summary[1].pages_crawled = 3
    /\ \E i, j, k \in 1..Len(fetch_log) :
         /\ fetch_log[i][3] = "ok"
         /\ fetch_log[j][3] = "nonhtml"
         /\ fetch_log[k][3] = "HTTP 404"

\* C10. External links are out of boundary: every href recorded in
\* all_external_links has a normalized form that does not start with
\* base_prefix.
ExternalLinksOutOfBoundary ==
    \A prefix \in {base_prefix}, page \in DOMAIN all_external_links :
        \A i \in 1..Len(all_external_links[page]) :
            ~startswith(normalize_url(all_external_links[page][i][1]), prefix)

\* The attempt logged at index i of fetch_log is the last one made on its URL.
last_attempt(i) ==
    IF i = Len(fetch_log) THEN ~(pc = "fetch" /\ url = fetch_log[i][1])
    ELSE fetch_log[i + 1][1] # fetch_log[i][1]

\* The waits made before another attempt on URL u.
backoffs_of(u) == SelectSeq(sleeps, LAMBDA w : w[1] = u /\ w[2] # 0)

\* The URL lines of the page files.
saved_urls == {files[f] : f \in DOMAIN files}

\* Whether an attempt on the URL logged at index i of fetch_log, made before
\* that one, left a page file cut short.
cut_before(i) ==
    \E j \in 1..(i - 1) :
        fetch_log[j][1] = fetch_log[i][1] /\ fetch_log[j][3] = disk_full_error

\* C11. Exponential backoff: every wait before another attempt follows failed
\* attempt 1 or 2 and lasts delay * 2^a after failed attempt a, whether the
\* failure is a retryable HTTP status or a transport error; no URL is attempted
\* more than 3 times.
BackoffExponential ==
    /\ \A i \in 1..Len(sleeps) :
         sleeps[i][2] # 0 =>
             /\ sleeps[i][2] \in {1, 2}
             /\ sleeps[i][3] = delay * (2 ^ sleeps[i][2])
    /\ \A i \in 1..Len(fetch_log) : fetch_log[i][2] <= 3

\* C12. Terminal HTTP status: an attempt answered with HTTP 404 is the last
\* one on its URL, one error entry is recorded for it and no wait follows it;
\* when it is the first attempt, the URL has one attempt and one error entry,
\* with attempt 1; the URL has no page file, but one that an earlier attempt
\* left cut short, and the run goes on (it is not aborted by the status).
TerminalStatus ==
    \A i \in 1..Len(fetch_log) :
        fetch_log[i][3] = "HTTP 404" =>
            \A u \in {fetch_log[i][1]}, a \in {fetch_log[i][2]} :
                /\ last_attempt(i)
                /\ i = Len(fetch_log) => pc # "aborted"
                /\ Len(backoffs_of(u)) = a - 1
                /\ Len(errors_of(u)) = a
                /\ errors_of(u)[a] = [url |-> u, error |-> "HTTP 404", attempt |-> a]
                /\ a = 1 => Len(attempts_of(u)) = 1
                /\ u \in saved_urls => cut_before(i)
                /\ u \notin DOMAIN all_external_links

\* Page b answered 404 on its first attempt: it was not tried again and no
\* wait was made for it, and the run went on to fetch page c and to its end.
TerminalStatusWitness ==
    /\ pc = "done"
    /\ site = "levels"
    /\ \E i \in 1..(Len(fetch_log) - 1) :
         /\ fetch_log[i] = <<UB, 1, "HTTP 404">>
         /\ fetch_log[i + 1] = <<UC, 1, "ok">>
    /\ errors = <<[url |-> UB, error |-> "HTTP 404", attempt |-> 1]>>
    /\ backoffs_of(UB) = <<>>

\* An attempt answered with a non-HTML Content-Type: the URL is visited, the
\* attempt is the last one on it, and the URL has no external links and no
\* page file, but one that an earlier attempt left cut short; the URL has no
\* other attempt and no error entry when the attempt is the first.
NonHtmlSkipped ==
    \A i \in 1..Len(fetch_log) :
        fetch_log[i][3] = "nonhtml" =>
            \A u \in {fetch_log[i][1]}, a \in {fetch_log[i][2]} :
                /\ u \in Range(visited_original)
                /\ normalize_url(u) \in visited
                /\ Cardinality(visited) <= max_pages
                /\ last_attempt(i)
                /\ Len(attempts_of(u)) = a
                /\ Len(errors_of(u)) = a - 1
                /\ u \in saved_urls => cut_before(i)
                /\ u \notin DOMAIN all_external_links

\* The step that logs an attempt answered with a non-HTML Content-Type changes
\* neither the queue nor the external links, the error log or the page files.
NonHtmlStep ==
    (/\ fetch_log' # fetch_log
     /\ fetch_log'[Len(fetch_log')][3] = "nonhtml")
        => UNCHANGED <<queue, all_external_links, errors, files, visited, sleeps>>

\* C13. Non-HTML response is success-but-skip: the page is marked visited and
\* counts against the budget, is fetched once (the attempt is not repeated),
\* produces no page file, contributes no queued and no external link, and adds
\* no entry to the error log.
NonHtmlSkip == []NonHtmlSkipped /\ [][NonHtmlStep]_vars

\* Page b, which links to page f, answered with a PDF: the run ended with b
\* visited, without errors and without a file for b, and f was found only
\* through page e.
NonHtmlSkipWitness ==
    /\ pc = "done"
    /\ site = "levels"
    /\ errors = <<>>
    /\ visited_original = <<UA, UB, UC, UE, UH, UF>>
    /\ \E i \in 1..Len(fetch_log) : fetch_log[i] = <<UB, 1, "nonhtml">>
    /\ saved_urls = {UA, UC, UE, UH, UF}

\* C14. Per-page failures are local: no outcome of fetching or extracting a
\* page aborts the run.
PageFailuresLocal == pc # "aborted"

\* The entries of fetch_log that are failed attempts an except clause caught.
caught_failures ==
    keep(fetch_log, {i \in 1..Len(fetch_log) :
                        fetch_log[i][3] \notin {"ok", "nonhtml", "IncompleteRead", "ValueError"}})

\* C15. Summary completeness: the returned summary's errors count is the
\* length of its error_details, and error_details is the error log, which holds
\* one entry per failed attempt, with its URL, description and attempt number,
\* in the order of the attempts.
SummaryComplete ==
    pc = "done" =>
        /\ summary[1].errors = Len(summary[1].error_details)
        /\ summary[1].error_details = errors
        /\ \A failed \in {caught_failures} :
             errors = [i \in 1..Len(failed) |->
                          [url |-> failed[i][1], error |-> failed[i][3],
                           attempt |-> failed[i][2]]]

\* A finished run in which one page failed twice and another page once.
SummaryCompleteWitness ==
    /\ pc = "done"
    /\ summary[1].errors = 3
    /\ errors[1].url = errors[2].url
    /\ errors[3].url # errors[1].url

\* The pages that recorded an external link to href.
sources_of(href) ==
    {p \in DOMAIN all_external_links :
        \E j \in 1..Len(all_external_links[p]) : all_external_links[p][j][1] = href}

\* C16. Third-party provenance: in each third-party domain group of the audit
\* report every href is listed once, with every page that linked to it.
ThirdPartyProvenance ==
    audit # <<>> =>
        \A g \in 1..Len(audit[1].third_party) :
            \A listed \in {audit[1].third_party[g][2]} :
                /\ \A m, n \in 1..Len(listed) : listed[m][1] = listed[n][1] => m = n
                /\ \A n \in 1..Len(listed) :
                     Range(listed[n][2]) = sources_of(listed[n][1])

\* The (href, domain) pairs recorded as external.
recorded_pairs ==
    UNION { {all_external_links[p][j] : j \in 1..Len(all_external_links[p])} :
            p \in DOMAIN all_external_links }

\* Whether href is listed under domain in the Official Links section.
in_official(href, domain) ==
    \E g \in 1..Len(audit[1].official) :
        /\ audit[1].official[g][1] = domain
        /\ \E n \in 1..Len(audit[1].official[g][2]) : audit[1].official[g][2][n] = href

\* Whether href is listed under domain in the Third-Party Links section.
in_third_party(href, domain) ==
    \E g \in 1..Len(audit[1].third_party) :
        /\ audit[1].third_party[g][1] = domain
        /\ \E n \in 1..Len(audit[1].third_party[g][2]) :
             audit[1].third_party[g][2][n][1] = href

\* The hrefs listed in the two sections, each with its domain.
listed_pairs ==
    UNION { {<<audit[1].official[g][2][n], audit[1].official[g][1]>> :
                n \in 1..Len(audit[1].official[g][2])} :
            g \in 1..Len(audit[1].official) }
    \cup
    UNION { {<<audit[1].third_party[g][2][n][1], audit[1].third_party[g][1]>> :
                n \in 1..Len(audit[1].third_party[g][2])} :
            g \in 1..Len(audit[1].third_party) }

\* C17, as stated: every recorded pair is in exactly one of the two groupings,
\* and it is official if and only if its domain equals a member of the
\* official domains the caller supplied.
ClassifiedBySuppliedDomain ==
    audit # <<>> =>
        \A pair \in recorded_pairs :
            /\ in_official(pair[1], pair[2]) # in_third_party(pair[1], pair[2])
            /\ in_official(pair[1], pair[2])
                   <=> \E i \in 1..Len(official_domains[1]) :
                           official_domains[1][i] = pair[2]

\* C17, amended: every recorded pair is in exactly one of the two groupings
\* (and nothing else is listed), and it is official if and only if its domain
\* equals the lower-cased, stripped form of a member of the official domains
\* the caller supplied; the domain of a subdomain of an official domain is
\* third-party.
ClassificationPartition ==
    audit # <<>> =>
        /\ listed_pairs = recorded_pairs
        /\ \A pair \in recorded_pairs :
            /\ in_official(pair[1], pair[2]) # in_third_party(pair[1], pair[2])
            /\ in_official(pair[1], pair[2])
                   <=> \E i \in 1..Len(official_domains[1]) :
                           strip(str_lower(official_domains[1][i])) = pair[2]

\* With official domains [" Y "], the links to s://y/ and s://Y/ are listed as
\* official under "y", and the link to s://o.y/ as third-party under "o.y".
ClassificationWitness ==
    /\ audit # <<>>
    /\ official_domains = Some(<< <<" ", "Y", " ">> >>)
    /\ audit[1].official = << << <<"y">>, <<UYU, UY>> >> >>
    /\ in_third_party(UOY, <<"o", ".", "y">>)
    /\ ~in_official(UOY, <<"o", ".", "y">>)

\* The descriptions of the HTTP-status failures.
http_descriptions == {http_error(code) : code \in HttpCodes}

\* C18. Dead links: the Dead Links section lists the entries of the error log
\* whose description is that of an HTTP-status failure, and no other entry,
\* each with its URL and its error, in the order of the log.
DeadLinksAreHttpFailures ==
    audit # <<>> =>
        \A dead \in {keep(errors, {i \in 1..Len(errors) :
                                      errors[i].error \in http_descriptions})} :
            audit[1].dead = [i \in 1..Len(dead) |-> <<dead[i].url, dead[i].error>>]

\* C19. _all_links.txt holds the URLs of visited_original, each on one line,
\* in increasing order, and nothing else (no URL left in the queue, no external
\* href); it has as many lines as pages were visited, the pages that failed or
\* were skipped as non-HTML included.
AllLinksSorted ==
    pc = "done" =>
        /\ all_links # <<>>
        /\ \A lines \in {all_links[1]} :
             /\ Len(lines) = Len(visited_original)
             /\ Len(lines) = Cardinality(visited)
             /\ Len(lines) = summary[1].pages_crawled
             /\ Range(lines) = Range(visited_original)
             /\ \A i \in 1..(Len(lines) - 1) : str_lt(lines[i], lines[i + 1])
             /\ \A i \in 1..Len(queue) : queue[i] \notin Range(lines)
             /\ \A pair \in recorded_pairs : pair[1] \in Range(lines) =>
                    pair[1] \in Range(visited_original)

\* The index of a run that visited f before e and h, with a page that failed
\* and a page skipped as non-HTML: the lines are in increasing order, which is
\* not the order of the visits.
AllLinksSortedWitness ==
    /\ pc = "done"
    /\ site = "levels"
    /\ visited_original = <<UA, UB, UC, UF, UE, UH>>
    /\ all_links = << <<UA, UB, UC, UE, UF, UH>> >>
    /\ \E i, j \in 1..Len(fetch_log) :
         /\ fetch_log[i][3] = "nonhtml"
         /\ fetch_log[j][3] = "HTTP 404"

\* The query string of the parts of a URL: what follows the "?".
query_string(parts) == IF parts.query = <<>> THEN <<>> ELSE Tail(parts.query)

\* Whether path p is path q followed by one "/".
one_more_slash(p, q) == p = q \o <<"/">>

\* Whether paths p and q are equal once the slashes they end with are left out.
same_but_for_slashes(p, q) ==
    \E m \in 0..Len(p), n \in 0..Len(q) :
        /\ SubSeq(p, 1, m) = SubSeq(q, 1, n)
        /\ \A i \in (m + 1)..Len(p) : p[i] = "/"
        /\ \A i \in (n + 1)..Len(q) : q[i] = "/"

\* Whether two URLs differ at most by their fragments, by the letter case of
\* scheme and host, and by a single trailing slash on the path.
differ_slightly(u, v) ==
    /\ str_lower(u.scheme) = str_lower(v.scheme)
    /\ str_lower(u.host) = str_lower(v.host)
    /\ query_string(u) = query_string(v)
    /\ u.path = v.path \/ one_more_slash(u.path, v.path) \/ one_more_slash(v.path, u.path)

\* C20, as stated: two URLs that differ only by fragment, by the letter case of
\* host or scheme, or by a single trailing slash on the path have the same
\* normalized form; two URLs whose query strings differ, or whose paths differ
\* otherwise than by a single trailing slash, have different normalized forms.
NormalizationSingleSlash ==
    norm_result # <<>> =>
        \A u \in {norm_args[1]}, v \in {norm_args[2]} :
            /\ differ_slightly(u, v) => norm_result[1] = norm_result[2]
            /\ \/ query_string(u) # query_string(v)
               \/ ~(u.path = v.path \/ one_more_slash(u.path, v.path)
                                    \/ one_more_slash(v.path, u.path))
               => norm_result[1] # norm_result[2]

\* C20, amended: two URLs have the same normalized form if and only if their
\* schemes and hosts are equal up to letter case, their query strings are
\* equal, and their paths are equal once all the slashes they end with are
\* left out (the fragments do not count); in particular two URLs that differ
\* only by fragment, letter case of host or scheme, or a single trailing slash
\* have the same normalized form, and the normalized form ends with the query
\* string of the URL.
NormalizationEquivalence ==
    norm_result # <<>> =>
        \A u \in {norm_args[1]}, v \in {norm_args[2]} :
            /\ norm_result[1] = norm_result[2]
                   <=> /\ str_lower(u.scheme) = str_lower(v.scheme)
                       /\ str_lower(u.host) = str_lower(v.host)
                       /\ query_string(u) = query_string(v)
                       /\ same_but_for_slashes(u.path, v.path)
            /\ differ_slightly(u, v) => norm_result[1] = norm_result[2]
            /\ query_string(u) # <<>> =>
                   \E k \in 1..Len(norm_result[1]) :
                       SubSeq(norm_result[1], k, Len(norm_result[1]))
                           = <<"?">> \o query_string(u)

\* S://X/d//?q#g and s://x/d?q, which differ by letter case, by two trailing
\* slashes and by a fragment, have the normalized form s://x/d?q.
NormalizationWitness ==
    /\ norm_result # <<>>
    /\ url_text(norm_args[1]) = <<"S", ":", "/", "/", "X", "/", "d", "/", "/", "?", "q", "#", "g">>
    /\ url_text(norm_args[2]) = <<"s", ":", "/", "/", "x", "/", "d", "?", "q">>
    /\ norm_result = << <<"s", ":", "/", "/", "x", "/", "d", "?", "q">>,
                        <<"s", ":", "/", "/", "x", "/", "d", "?", "q">> >>

\* The indices of the ignored tags on the stack of parser p.
open_ignored(p) == {i \in 1..Len(p.tag_stack) : p.tag_stack[i] \in IGNORE_TAGS}

\* The ignored elements the specification lists.
listed_ignored ==
    {"script", "style", "nav", "footer", "header", "svg", "iframe", "button", "form"}

\* The depth counter is zero exactly when no ignored tag is on the stack.
DepthZeroIffNoneOpen ==
    parser # <<>> => (parser[1].inside_ignored = 0) = (open_ignored(parser[1]) = {})

\* A step that changes the extracted text is the call of handle_data on a
\* text node, made with the depth counter at zero and with no ignored tag on
\* the stack, and it appends the stripped text.
TextStep ==
    (parser # <<>> /\ parser' # <<>> /\ parser'[1].text_parts # parser[1].text_parts)
        => /\ parser[1].inside_ignored = 0
           /\ \A i \in 1..Len(parser[1].tag_stack) :
                parser[1].tag_stack[i] \notin IGNORE_TAGS \cup listed_ignored
           /\ fed'[Len(fed')][1] = "data"
           /\ parser'[1].text_parts
                  = Append(parser[1].text_parts, strip(fed'[Len(fed')][2]))

\* C21. Text capture is suppressed inside ignored elements: for every sequence
\* of start-tag, end-tag and text events, a text node is appended to the
\* extracted text only when the depth counter is zero, which is when no
\* ignored element is on the stack of open tags.
TextCapture == []DepthZeroIffNoneOpen /\ [][TextStep]_vars

\* The text fed inside nav was not captured; the same text, fed after the end
\* tag of nav, was.
TextCaptureWitness ==
    /\ parser # <<>>
    /\ fed = << <<"start", "nav", <<>> >>, <<"data", <<" ", "t">> >>,
                <<"end", "nav">>, <<"data", <<" ", "t">> >> >>
    /\ parser[1].text_parts = << <<"t">> >>

\* The anchors fed whose href is present, not empty, and does not begin with
\* an inert scheme, in document order.
anchors_fed ==
    SelectSeq(fed, LAMBDA e :
        /\ e[1] = "start"
        /\ e[2] = "a"
        /\ \E href \in {dict_get(e[3], "href")} :
             /\ href # None
             /\ href[1] # <<>>
             /\ \A inert \in SKIP_SCHEMES : ~startswith(href[1], inert))

\* C22. Link discovery is independent of the ignored depth: the links
\* discovered are, in document order, one link per anchor start tag whose href
\* is present, not empty and not inert (its href resolved against the base URL,
\* without its fragment), whether or not the anchor is inside an ignored
\* element; the other anchors add none.
AnchorLinks ==
    parser # <<>> =>
        \A anchors \in {anchors_fed} :
            parser[1].links =
                [k \in 1..Len(anchors) |->
                    urldefrag(urljoin(parser[1].base_url,
                                      dict_get(anchors[k][3], "href")[1]))]

\* C23. Success signal: the command-line entry point exits after crawl_docs
\* has returned its summary, with status 0 if and only if the summary's errors
\* count is 0, and with status 1 otherwise.
ExitStatus ==
    /\ pc = "exited" => exit_status # <<>>
    /\ exit_status # <<>> =>
          /\ pc = "exited"
          /\ summary # <<>>
          /\ exit_status[1] \in {0, 1}
          /\ exit_status[1] = 0 <=> summary[1].errors = 0

\* A run whose start URL is outside the boundary: no page was visited, the
\* summary counts no error, and the exit status is 0.
ExitStatusWitness ==
    /\ pc = "exited"
    /\ max_pages > 0
    /\ ~startswith(start_url, base_prefix)
    /\ summary[1].pages_crawled = 0
    /\ summary[1].errors = 0
    /\ exit_status = <<0>>

HeadNotVisited == queue # <<>> => normalize_url(Head(queue)) \notin visited

\* A pass of the while loop that pops a URL: the URL popped is not visited; it
\* is marked visited and goes to its first fetch attempt when it starts with
\* base_prefix, and is dropped when it does not.
DequeueStep ==
    (pc = "loop" /\ pc' \in {"loop", "fetch"}) =>
        \E u \in {Head(queue)} : \E norm \in {normalize_url(u)} :
            /\ queue' = Tail(queue)
            /\ norm \notin visited
            /\ IF startswith(u, base_prefix)
               THEN /\ visited' = visited \cup {norm}
                    /\ visited_original' = Append(visited_original, u)
                    /\ url' = u
                    /\ attempt' = 1
                    /\ pc' = "fetch"
               ELSE /\ UNCHANGED <<visited, visited_original>>
                    /\ pc' = "loop"

\* C25. The dequeue-time "already visited" check never discards anything: in
\* every reachable state the URL at the head of the queue has a normalized form
\* that is not in visited, so every dequeued URL that passes the boundary check
\* is marked visited and fetched, and no dequeue is spent on a visited URL.
DequeueNeverDiscardsVisited == []HeadNotVisited /\ [][DequeueStep]_vars

\* The queue ran empty with every page of the site visited and fetched once:
\* the start page and page b link to s://x/d/b, s://x/d/b/ and s://x/d/b#g, to
\* themselves and to each other, and none of these links was dequeued twice.
DequeueNeverDiscardsWitness ==
    /\ pc = "done"
    /\ site = "variants"
    /\ start_url = UA
    /\ queue = <<>>
    /\ visited_original = <<UA, UB, UBq, UC>>
    /\ fetch_log = <<<<UA, 1, "ok">>, <<UB, 1, "ok">>, <<UBq, 1, "ok">>, <<UC, 1, "ok">>>>

\* The error entries of a URL fetched with success at attempt a are those of
\* its attempts 1 to a - 1, which failed.
RetriedErrorsKept ==
    \A i \in 1..Len(fetch_log) :
        fetch_log[i][3] = "ok" =>
            \A u \in {fetch_log[i][1]}, a \in {fetch_log[i][2]} :
                /\ last_attempt(i)
                /\ errors_of(u) =
                       [k \in 1..(a - 1) |->
                           [url |-> u, error |-> attempts_of(u)[k][3], attempt |-> k]]
                /\ \A k \in 1..(a - 1) : attempts_of(u)[k][3] \notin {"ok", "nonhtml"}

\* The errors count of the summary is the number of failed attempts, and the
\* exit status is 1 when there is one.
ErrorsCountAttempts ==
    /\ summary # <<>> => summary[1].errors = Len(caught_failures)
    /\ exit_status # <<>> /\ Len(caught_failures) > 0 => exit_status = <<1>>

\* The step of an attempt that succeeds writes the page file, processes the
\* links of the page (each is visited, pending or recorded as external after
\* it) and leaves the error log as it is.
SuccessStep ==
    (fetch_log' # fetch_log /\ fetch_log'[Len(fetch_log')][3] = "ok") =>
        /\ errors' = errors
        /\ files'[make_filename(url, base_path)] = url
        /\ \A prefix \in {base_prefix} :
             \A l \in Range(parser_links(url, site_links(site, url))) :
                IF startswith(l, prefix)
                THEN normalize_url(l) \in visited \/ pending(queue', normalize_url(l))
                ELSE \E j \in 1..Len(all_external_links'[url]) :
                         all_external_links'[url][j][1] = l

\* C26. Error entries survive a successful retry: a page that failed on its
\* first attempts and then succeeded has its file written and its links
\* processed, and the error entries of its failed attempts stay in the log;
\* the summary's errors count is the number of failed attempts, not of failed
\* pages, and the exit status is 1 when an attempt failed.
ErrorsSurviveRetry ==
    []RetriedErrorsKept /\ []ErrorsCountAttempts /\ [][SuccessStep]_vars

\* Every visited page was fetched with success and its file is there, the
\* start page after a 503 and a transport error: the summary counts 2 errors
\* and the exit status is 1.
ErrorsSurviveRetryWitness ==
    /\ pc = "exited"
    /\ exit_status = <<1>>
    /\ summary[1].errors = 2
    /\ attempts_of(start_url) = <<<<start_url, 1, "HTTP 503">>, <<start_url, 2, url_error>>,
                                  <<start_url, 3, "ok">>>>
    /\ Len(visited_original) >= 2
    /\ \A u \in Range(visited_original) :
         attempts_of(u)[Len(attempts_of(u))][3] = "ok" /\ u \in saved_urls

\* C27. On fetch failure nothing is discovered: a page whose attempts ended
\* with a failure (a terminal HTTP status, or a third failed attempt) is
\* visited and has its error entries, and nothing else: it has no external
\* links, no page file holds its URL line, and the file of its name, if there
\* is one, is that of another page, which was fetched with success.
FailedPageLeavesNothing ==
    \A i \in 1..Len(fetch_log) :
        (/\ last_attempt(i)
         /\ fetch_log[i][3] \notin {"ok", "nonhtml", "IncompleteRead", "ValueError"}) =>
            \A u \in {fetch_log[i][1]} :
                /\ normalize_url(u) \in visited
                /\ Len(errors_of(u)) = fetch_log[i][2]
                /\ u \notin DOMAIN all_external_links
                /\ u \notin saved_urls
                /\ \A name \in {make_filename(u, base_path)} :
                     name \in DOMAIN files => files[name] \in saved_pages \ {u}

\* C28. A page is marked visited before its first fetch attempt and is never
\* queued again: the URL of every attempt is visited; the attempts on one
\* normalized URL are numbered from 1, in one run of at most 3 consecutive
\* attempts, each but the first following a failed attempt; no queued URL is
\* visited; and the attempts of a run number at most 3 times the visited
\* pages.
OneAttemptSequence ==
    /\ \A norms \in {[i \in 1..Len(fetch_log) |-> normalize_url(fetch_log[i][1])]} :
         \A i \in 1..Len(fetch_log) :
            /\ norms[i] \in visited
            /\ fetch_log[i][2] \in 1..3
            /\ fetch_log[i][2] = 1 + Cardinality({j \in 1..(i - 1) : norms[j] = norms[i]})
            /\ fetch_log[i][2] > 1 =>
                  /\ fetch_log[i - 1][1] = fetch_log[i][1]
                  /\ fetch_log[i - 1][3] \notin {"ok", "nonhtml"}
    /\ pc = "fetch" => normalize_url(url) \in visited
    /\ \A i \in 1..Len(queue) : normalize_url(queue[i]) \notin visited
    /\ Len(fetch_log) <= 3 * Cardinality(visited)

\* Page b answered 404; page c, which was found through page b?q and
\* fetched after it, links to page b: b was not queued again, and the
\* run ended with one attempt on b.
OneAttemptSequenceWitness ==
    /\ pc = "done"
    /\ site = "variants"
    /\ queue = <<>>
    /\ fetch_log = <<<<UA, 1, "ok">>, <<UB, 1, "HTTP 404">>, <<UBq, 1, "ok">>,
                     <<UC, 1, "ok">>>>

\* Once visited holds max_pages URLs, a step removes nothing from the queue
\* and visits nothing; an attempt it makes is on the page visited last.
FrontierStep ==
    Cardinality(visited) >= max_pages =>
        /\ UNCHANGED <<visited, visited_original>>
        /\ Len(queue') >= Len(queue)
        /\ SubSeq(queue', 1, Len(queue)) = queue
        /\ fetch_log' # fetch_log =>
              fetch_log'[Len(fetch_log')][1] = visited_original[Len(visited_original)]

\* At the end of a run, a URL left in the queue was not fetched, is in no page
\* file, is not in visited_original, and is neither in _all_links.txt nor in
\* the summary, which counts the visited pages.
FrontierLeft ==
    pc \in {"done", "exited"} =>
        /\ summary[1].pages_crawled = Len(visited_original)
        /\ \A i \in 1..Len(queue) : \A q \in {queue[i]} :
             /\ q \notin Range(visited_original)
             /\ normalize_url(q) \notin visited
             /\ \A k \in 1..Len(fetch_log) : fetch_log[k][1] # q
             /\ q \notin saved_urls
             /\ q \notin Range(all_links[1])
             /\ \A k \in 1..Len(summary[1].error_details) :
                  summary[1].error_details[k].url # q

\* C29. Budget cut-off leaves the frontier untouched: once visited holds
\* max_pages URLs no further URL is dequeued or fetched, and the URLs left in
\* the queue are never fetched, written to a file, added to visited_original,
\* or reported in _all_links.txt or the summary.
FrontierUntouched == []FrontierLeft /\ [][FrontierStep]_vars

\* max_pages = 1 and a start page with five in-boundary links: one page file,
\* one entry of visited_original, one line of _all_links.txt, and the five
\* URLs left in the queue.
FrontierUntouchedWitness ==
    /\ pc = "done"
    /\ site = "fan"
    /\ max_pages = 1
    /\ files = (<<"index", ".txt">> :> UA)
    /\ visited_original = <<UA>>
    /\ all_links = << <<UA>> >>
    /\ summary[1].pages_crawled = 1
    /\ queue = <<UB, UC, UE, UF, UH>>

\* The while loop is at its test with a URL in the queue and the budget not
\* used up.
Running == pc = "loop" /\ queue # <<>> /\ Cardinality(visited) < max_pages

\* After the loop, the queue is empty or visited holds max_pages URLs.
EndCondition ==
    pc \in {"done", "exited"} => queue = <<>> \/ Cardinality(visited) = max_pages

\* The step taken at the test of the while loop: a dequeue while the queue is
\* not empty and the budget is not used up, the end of the loop otherwise.
LoopStep ==
    pc = "loop" =>
        IF queue # <<>> /\ Cardinality(visited) < max_pages
        THEN /\ pc' \in {"loop", "fetch"}
             /\ queue' = Tail(queue)
             /\ url' = Head(queue)
             /\ summary' = <<>>
        ELSE /\ pc' = "done"
             /\ summary' # <<>>
             /\ UNCHANGED <<queue, visited, visited_original>>

QueueInBoundary ==
    \A prefix \in {base_prefix} : \A i \in 1..Len(queue) :
        \/ startswith(queue[i], prefix)
        \/ /\ i = 1
           /\ queue = <<start_url>>
           /\ visited_original = <<>>
           /\ fetch_log = <<>>

\* A pass of the loop that drops the URL it dequeued because the URL does not
\* start with base_prefix is the first pass, on the start URL, and leaves the
\* queue empty.
BoundaryDropStep ==
    (pc = "loop" /\ queue' # queue /\ ~startswith(Head(queue), base_prefix)) =>
        /\ pc' = "loop"
        /\ queue = <<start_url>>
        /\ queue' = <<>>
        /\ fetch_log = <<>>
        /\ visited = {}
        /\ UNCHANGED <<visited, visited_original, errors, fetch_log, files>>

\* A run on a start URL that does not start with base_prefix fetches nothing
\* and writes no page file, and its summary counts no page and no error.
OutsideStartFetchesNothing ==
    ~startswith(start_url, base_prefix) =>
        /\ fetch_log = <<>>
        /\ files = <<>>
        /\ visited = {}
        /\ visited_original = <<>>
        /\ errors = <<>>
        /\ all_external_links = <<>>
        /\ pc \in {"loop", "done", "exited"}
        /\ pc \in {"done", "exited"} =>
              /\ summary[1].pages_crawled = 0
              /\ summary[1].errors = 0
              /\ all_links = << <<>> >>
        /\ pc = "exited" => exit_status = <<0>>

\* C31. Only the start URL can be discarded by the boundary check made on
\* dequeue: every URL link discovery appends to the queue starts with
\* base_prefix, so the check fails for the initial entry of the queue or for
\* none; and when the start URL does not start with base_prefix the run
\* fetches nothing, writes no page file and ends with pages_crawled = 0 and
\* errors = 0.
OnlyStartUrlDiscarded ==
    /\ []QueueInBoundary
    /\ [][BoundaryDropStep]_vars
    /\ []OutsideStartFetchesNothing

\* The start URL S://x/d/ differs from base_prefix s://x/d/ by the case of
\* its scheme: it was dequeued and dropped, and the run ended with a budget
\* left, no fetch, no page file and a summary of 0 pages and 0 errors.
OnlyStartUrlDiscardedWitness ==
    /\ pc = "exited"
    /\ start_url = USA
    /\ max_pages = MaxBudget
    /\ url = USA
    /\ queue = <<>>
    /\ fetch_log = <<>>
    /\ files = <<>>
    /\ summary[1].pages_crawled = 0
    /\ summary[1].errors = 0
    /\ exit_status = <<0>>

\* The number of ignored tags among the entries i..j of a stack.
ignored_between(stack, i, j) == Cardinality({k \in i..j : stack[k] \in IGNORE_TAGS})

\* The stack and the depth counter after a close tag, from those before it:
\* with the closed tag open, the stack is cut below the last entry equal to
\* it; with no such entry, the stack is emptied.  The counter goes down by
\* the number of ignored tags among the entries removed.
unwound(p, tag) ==
    the({ IF last = {} THEN [tag_stack |-> <<>>, inside_ignored |-> 0]
          ELSE the({ [tag_stack |-> SubSeq(p.tag_stack, 1, k - 1),
                      inside_ignored |-> p.inside_ignored
                                           - ignored_between(p.tag_stack, k, Len(p.tag_stack))] :
                     k \in {m \in last : \A n \in last : n <= m} }) :
          last \in { {i \in 1..Len(p.tag_stack) : p.tag_stack[i] = tag} } })

\* A call of handle_endtag leaves the stack and the counter unwound, and the
\* links and the text as they were; with no open tag equal to the closed one
\* it takes the counter down by the number of ignored tags that were open.
EndTagStep ==
    (fed' # fed /\ fed'[Len(fed')][1] = "end") =>
        \A before \in {parser[1]}, after \in {parser'[1]}, tag \in {fed'[Len(fed')][2]} :
            /\ after.tag_stack = unwound(before, tag).tag_stack
            /\ after.inside_ignored = unwound(before, tag).inside_ignored
            /\ after.links = before.links
            /\ after.text_parts = before.text_parts
            /\ (\A i \in 1..Len(before.tag_stack) : before.tag_stack[i] # tag) =>
                  /\ after.tag_stack = <<>>
                  /\ after.inside_ignored = 0
                  /\ before.inside_ignored =
                        ignored_between(before.tag_stack, 1, Len(before.tag_stack))

\* Text that is not blank and follows a close tag is captured when no ignored
\* tag is left on the stack, whatever was opened before the close tag.
TextAfterEndStep ==
    (/\ fed' # fed
     /\ fed'[Len(fed')][1] = "data"
     /\ fed # <<>>
     /\ fed[Len(fed)][1] = "end"
     /\ strip(fed'[Len(fed')][2]) # <<>>
     /\ \A i \in 1..Len(parser[1].tag_stack) : parser[1].tag_stack[i] \notin IGNORE_TAGS) =>
        parser'[1].text_parts = Append(parser[1].text_parts, strip(fed'[Len(fed')][2]))

\* C32. End-tag unwinding: on a close tag the open tags are popped until a
\* tag equal to the closed one has been popped or the stack is empty, and the
\* depth counter goes down once for every ignored tag popped; a close tag
\* with no open tag equal to it empties the stack and brings the counter to
\* zero, so that the text after it is captured, also inside an ignored
\* element that was not closed.
EndTagUnwinds == [][EndTagStep]_vars /\ [][TextAfterEndStep]_vars

\* <nav><noscript></p> t: the close tag of a paragraph that was not opened
\* emptied the stack of its two ignored tags, and the text after it, which is
\* inside both elements in the markup, was captured.
EndTagUnwindsWitness ==
    /\ fed = << <<"start", "nav", <<>> >>, <<"start", "noscript", <<>> >>,
                <<"end", "p">>, <<"data", <<" ", "t">> >> >>
    /\ parser[1].tag_stack = <<>>
    /\ parser[1].inside_ignored = 0
    /\ parser[1].text_parts = << <<"t">> >>

\* The depth counter is the number of ignored tags on the open-tag stack,
\* which is not negative, and zero for an empty stack.
DepthCountsIgnored ==
    parser # <<>> =>
        \A p \in {parser[1]} :
            /\ p.inside_ignored = ignored_between(p.tag_stack, 1, Len(p.tag_stack))
            /\ p.inside_ignored >= 0
            /\ p.tag_stack = <<>> => p.inside_ignored = 0

\* A call of handle_endtag takes the counter down by the number of ignored
\* tags it pops, a number that is at most the counter: max(0, n - 1) is
\* applied to an n of 1 or more each time, and is n - 1.
ClampIdleStep ==
    (fed' # fed /\ fed'[Len(fed')][1] = "end") =>
        \A before \in {parser[1]}, after \in {parser'[1]} :
            \A popped \in {ignored_between(before.tag_stack, Len(after.tag_stack) + 1,
                                           Len(before.tag_stack))} :
                /\ popped <= before.inside_ignored
                /\ after.inside_ignored = before.inside_ignored - popped
                /\ after.tag_stack = SubSeq(before.tag_stack, 1, Len(after.tag_stack))

\* A call of handle_starttag takes the counter up by one for an ignored tag
\* and leaves it for any other, whether the call returns or raises.
StartTagCountStep ==
    (fed' # fed /\ fed'[Len(fed')][1] = "start") =>
        \A before \in {parser[1]}, after \in {parser'[1]}, tag \in {fed'[Len(fed')][2]} :
            /\ after.tag_stack = Append(before.tag_stack, tag)
            /\ after.inside_ignored =
                  before.inside_ignored + (IF tag \in IGNORE_TAGS THEN 1 ELSE 0)

\* C33. Depth-counter invariant of the extractor: after any sequence of
\* start-tag and end-tag calls, balanced or not, the depth counter is the
\* number of ignored tags on the open-tag stack; it is never negative, the
\* clamp max(0, ...) never changes a value, and the counter is zero whenever
\* the stack is empty.
DepthCounterInvariant ==
    /\ []DepthCountsIgnored
    /\ [][ClampIdleStep]_vars
    /\ [][StartTagCountStep]_vars

\* <nav><noscript><p></noscript>: the close tag popped the paragraph, which
\* was not closed, and the inner ignored element; the counter went from 2 to
\* 1, with the outer ignored element still open.
DepthCounterWitness ==
    /\ fed = << <<"start", "nav", <<>> >>, <<"start", "noscript", <<>> >>,
                <<"start", "p", <<>> >>, <<"end", "noscript">> >>
    /\ parser[1].tag_stack = <<"nav">>
    /\ parser[1].inside_ignored = 1

\* The sleeps that end a pass of the while loop, in order.
polite_delays == SelectSeq(sleeps, LAMBDA e : e[2] = 0)

\* The pages whose fetch-attempt sequence has ended and whose pass is over:
\* every visited page, but for the last one while its pass is under way, or
\* was left by an exception.
passed_pages ==
    IF pc \in {"fetch", "sleep", "aborted"}
    THEN SubSeq(visited_original, 1, Len(visited_original) - 1)
    ELSE visited_original

\* There is one polite delay for each page whose pass is over, in the order of
\* the visits, of delay seconds; at the end of a run their number is that of
\* the visited pages.
OneDelayPerPage ==
    \A polite \in {polite_delays} :
        /\ polite = [i \in 1..Len(passed_pages) |-> <<passed_pages[i], 0, delay>>]
        /\ pc \in {"loop", "done", "exited"} => Len(polite) = Cardinality(visited)

\* The polite delay is what follows the end of a fetch-attempt sequence: a
\* step taken after the last attempt on a page is that sleep, on that page,
\* and leads to the test of the while loop; and no other step is that sleep.
PoliteDelayStep ==
    /\ pc = "sleep" =>
          /\ last_attempt(Len(fetch_log))
          /\ fetch_log[Len(fetch_log)][1] = url
          /\ sleeps' = Append(sleeps, <<url, 0, delay>>)
          /\ pc' = "loop"
          /\ UNCHANGED <<queue, visited, visited_original, fetch_log, errors, files>>
    /\ pc # "sleep" =>
          \/ sleeps' = sleeps
          \/ /\ pc = "fetch"
             /\ pc' = "fetch"
             /\ sleeps' = Append(sleeps, sleeps'[Len(sleeps')])
             /\ sleeps'[Len(sleeps')][2] = attempt
             /\ attempt \in 1..2

\* A URL is dequeued for a fetch with a polite delay made for every page
\* visited before it, the last sleep being the one for the page before.
DequeueAfterDelayStep ==
    (pc = "loop" /\ pc' = "fetch" /\ visited_original # <<>>) =>
        /\ sleeps # <<>>
        /\ sleeps[Len(sleeps)] = <<visited_original[Len(visited_original)], 0, delay>>
        /\ Len(polite_delays) = Len(visited_original)

saved_as(name) ==
    the({ [k \in 1..Len(ok) |-> ok[k][1]] :
          ok \in { SelectSeq(fetch_log,
                      LAMBDA e : e[3] = "ok" /\ make_filename(e[1], base_path) = name) } })

\* C35. Filename collision is last-write-wins: at the end of a run, the file
\* of a name that successfully fetched pages derive holds the URL line of the
\* page among them that was visited last, and the page files number as many
\* as the distinct filenames derived from the successfully fetched HTML pages.
LastWriteWins ==
    pc \in {"done", "exited"} =>
        /\ \A u \in saved_pages : \A name \in {make_filename(u, base_path)} :
              /\ name \in DOMAIN files
              /\ files[name] = saved_as(name)[Len(saved_as(name))]
        /\ Cardinality(DOMAIN files)
              = Cardinality({make_filename(u, base_path) : u \in saved_pages})

\* A step leaves the error list as it is or appends one entry to it, for the
\* attempt that is under way.
ErrorAppendStep ==
    \/ errors' = errors
    \/ /\ Len(errors') = Len(errors) + 1
       /\ SubSeq(errors', 1, Len(errors)) = errors
       /\ pc = "fetch"
       /\ errors'[Len(errors')].url = url
       /\ errors'[Len(errors')].attempt = attempt

\* The attempt number of every entry is 1, 2 or 3, and the entries of one URL
\* carry the numbers 1, 2, ... in the order of the list.
ErrorAttemptsNumbered ==
    \A i \in 1..Len(errors) :
        /\ errors[i].attempt \in 1..3
        /\ errors[i].attempt =
              1 + Cardinality({j \in 1..(i - 1) : errors[j].url = errors[i].url})

\* C36. The error log is append-only: every step of a run leaves the error
\* list unchanged or appends one entry at its end, so that no entry is ever
\* removed, reordered or modified; the attempt number of every entry is
\* between 1 and 3, and the entries of one URL carry consecutive attempt
\* numbers that start at 1.
ErrorLogAppendOnly == [][ErrorAppendStep]_vars /\ []ErrorAttemptsNumbered

\* The start page was saved after a 503; page b failed with a transport
\* error and then a 404: three entries, in the order of the failures, kept
\* to the end of the run.
ErrorLogWitness ==
    /\ pc = "exited"
    /\ errors = <<[url |-> UA, error |-> "HTTP 503", attempt |-> 1],
                  [url |-> UB, error |-> url_error, attempt |-> 1],
                  [url |-> UB, error |-> "HTTP 404", attempt |-> 2]>>
    /\ summary[1].error_details = errors
    /\ UA \in saved_urls

\* The error texts of the HTTP statuses the network answers with.
http_errors == {http_error(code) : code \in HttpCodes}

\* The fetch attempts that ended in an HTTP error status, in order, as the
\* Dead Links section writes an entry: the URL and the error.
failed_http_attempts ==
    the({ [k \in 1..Len(failed) |-> <<failed[k][1], failed[k][3]>>] :
          failed \in { SelectSeq(fetch_log, LAMBDA e : e[3] \in http_errors) } })

\* C37. Dead-link entries are per failed attempt, not per dead URL: the
\* entries of the Dead Links section that carry an HTTP status are, in order,
\* one for each fetch attempt that ended in an HTTP error status, so that a
\* URL is listed once for each of its failed HTTP attempts, up to 3 times,
\* also when a later attempt succeeded and its page file was written.  The
\* entries the section holds for errors that are not HTTP statuses but whose
\* text contains "HTTP" come on top of these.
DeadLinksPerAttempt ==
    audit # <<>> =>
        \A dead \in {audit[1].dead} :
            /\ SelectSeq(dead, LAMBDA e : e[2] \in http_errors) = failed_http_attempts
            /\ \A i \in 1..Len(dead) :
                  Cardinality({j \in 1..Len(dead) : dead[j][1] = dead[i][1]}) <= 3

\* The start page answered 503 twice and was saved on the third attempt: its
\* page file is there and the Dead Links section lists it twice.
DeadLinksPerAttemptWitness ==
    /\ pc = "done"
    /\ audit # <<>>
    /\ attempts_of(UA) = <<<<UA, 1, "HTTP 503">>, <<UA, 2, "HTTP 503">>, <<UA, 3, "ok">>>>
    /\ files[<<"index", ".txt">>] = UA
    /\ audit[1].dead = <<<<UA, "HTTP 503">>, <<UA, "HTTP 503">>>>
    /\ Len(visited_original) >= 2

====
